---- MODULE Spec2Model ----
(***************************************************************************)
(* Model of the PDF outline extractor (src/src/extractor.py and the        *)
(* helpers it calls in utils.py, detector.py and document_types.py).       *)
(*                                                                         *)
(* A behaviour is one call of extract_outline on one document.  The        *)
(* document (what the parsing layer would hand over: native outline,       *)
(* metadata title, pages with their blocks, lines and spans) is chosen in  *)
(* Init and never changes; the actions are the successive stretches of     *)
(* extract_outline.  Text is kept as strings and handled character by      *)
(* character, as the regular expressions and str methods of the source do. *)
(***************************************************************************)
EXTENDS Integers, Sequences, FiniteSets, TLC

(***************************************************************************)
(* Characters and the str methods used by the source.                      *)
(***************************************************************************)
LowerAlpha == "abcdefghijklmnopqrstuvwxyz"
UpperAlpha == "ABCDEFGHIJKLMNOPQRSTUVWXYZ"
DigitChars == "0123456789"

Ch(s, i) == SubSeq(s, i, i)

CharsOf(s) == {Ch(s, i) : i \in 1..Len(s)}

LowerSet == CharsOf(LowerAlpha)
UpperSet == CharsOf(UpperAlpha)
DigitSet == CharsOf(DigitChars)
SpaceSet == {" ", "\t", "\n"}
\* \w of the re module, restricted to ASCII
WordSet == LowerSet \cup UpperSet \cup DigitSet \cup {"_"}

IsDigit(c) == c \in DigitSet
IsSpace(c) == c \in SpaceSet
IsWord(c) == c \in WordSet

\* all characters of s[a..b] satisfy the class (true of an empty range)
AllIn(s, a, b, cls) == \A i \in a..b : Ch(s, i) \in cls

LowerCh(c) ==
    IF c \in UpperSet
    THEN Ch(LowerAlpha, CHOOSE i \in 1..Len(UpperAlpha) : Ch(UpperAlpha, i) = c)
    ELSE c

\* q[lo] \o ... \o q[hi] for a list q of strings
RECURSIVE JoinRange(_, _, _)
JoinRange(q, lo, hi) ==
    IF lo > hi THEN ""
    ELSE IF lo = hi THEN q[lo]
    ELSE LET mid == (lo + hi) \div 2
         IN JoinRange(q, lo, mid) \o JoinRange(q, mid + 1, hi)

\* "".join(q)
JoinStr(q) == JoinRange(q, 1, Len(q))

ToLower(s) == JoinStr([i \in 1..Len(s) |-> LowerCh(Ch(s, i))])

\* length of the run of characters of cls that starts at position p
RunFwd(s, p, cls) ==
    LET stop == {i \in p..Len(s) : Ch(s, i) \notin cls}
    IN IF stop = {} THEN (IF p > Len(s) THEN 0 ELSE Len(s) - p + 1)
       ELSE (CHOOSE i \in stop : \A j \in stop : i <= j) - p

\* length of the run of characters of cls that ends at position e
RunBack(s, e, cls) ==
    LET stop == {i \in 1..e : Ch(s, i) \notin cls}
    IN IF stop = {} THEN (IF e < 1 THEN 0 ELSE e)
       ELSE e - (CHOOSE i \in stop : \A j \in stop : i >= j)

LStrip(s) == SubSeq(s, 1 + RunFwd(s, 1, SpaceSet), Len(s))

RStrip(s) == SubSeq(s, 1, Len(s) - RunBack(s, Len(s), SpaceSet))

Strip(s) == RStrip(LStrip(s))

\* needle in haystack
Contains(hay, needle) ==
    \E i \in 0..(Len(hay) - Len(needle)) : SubSeq(hay, i + 1, i + Len(needle)) = needle

\* string starts with prefix at position p (1-based)
MatchAt(s, p, lit) == p + Len(lit) - 1 <= Len(s) /\ SubSeq(s, p, p + Len(lit) - 1) = lit

StartsWith(s, lit) == MatchAt(s, 1, lit)

EndsWith(s, lit) == Len(lit) <= Len(s) /\ SubSeq(s, Len(s) - Len(lit) + 1, Len(s)) = lit

\* str.isupper: at least one cased character and no lowercase one
IsUpperStr(s) ==
    /\ \E i \in 1..Len(s) : Ch(s, i) \in UpperSet
    /\ \A i \in 1..Len(s) : Ch(s, i) \notin LowerSet

\* str.istitle: uppercase only after an uncased character, lowercase only
\* after a cased one, and at least one cased character
IsTitleStr(s) ==
    LET Cased(i) == i >= 1 /\ Ch(s, i) \in (LowerSet \cup UpperSet)
    IN /\ \E i \in 1..Len(s) : Cased(i)
       /\ \A i \in 1..Len(s) :
            /\ Ch(s, i) \in UpperSet => ~Cased(i - 1)
            /\ Ch(s, i) \in LowerSet => Cased(i - 1)

\* str.count of a single character
CountChar(s, c) == Cardinality({i \in 1..Len(s) : Ch(s, i) = c})

(***************************************************************************)
(* utils.clean_heading_text                                                *)
(***************************************************************************)
\* re.sub(r'\s+', ' ', s): every whitespace run becomes one blank
CollapseSpace(s) ==
    JoinStr([i \in 1..Len(s) |->
               IF ~IsSpace(Ch(s, i)) THEN Ch(s, i)
               ELSE IF i > 1 /\ IsSpace(Ch(s, i - 1)) THEN "" ELSE " "])

\* re.sub(r'[.\-_]+$', '', s)
StripTrailingPunct(s) == SubSeq(s, 1, Len(s) - RunBack(s, Len(s), {".", "-", "_"}))

\* re.sub(r'\s+\d+$', '', s): a final digit run and the whitespace run before it
StripPageNumber(s) ==
    LET d == RunBack(s, Len(s), DigitSet)
        w == RunBack(s, Len(s) - d, SpaceSet)
    IN IF d >= 1 /\ w >= 1 THEN SubSeq(s, 1, Len(s) - d - w) ELSE s

clean_heading_text(text) ==
    IF text = "" THEN ""
    ELSE Strip(StripPageNumber(StripTrailingPunct(CollapseSpace(Strip(text)))))

(***************************************************************************)
(* utils.PATTERNS: the regular expressions, each as the predicate that     *)
(* re.match (anchored at the start) or re.search (anywhere) computes.      *)
(***************************************************************************)
DigitAt(s, p) == p >= 1 /\ p <= Len(s) /\ IsDigit(Ch(s, p))
SpaceAt(s, p) == p >= 1 /\ p <= Len(s) /\ IsSpace(Ch(s, p))
WordAt(s, p) == p >= 1 /\ p <= Len(s) /\ IsWord(Ch(s, p))
DigitsAt(s, p, n) == p >= 1 /\ p + n - 1 <= Len(s) /\ AllIn(s, p, p + n - 1, DigitSet)

\* \b between positions p and p+1
WordBoundary(s, p) == WordAt(s, p) # WordAt(s, p + 1)

\* PATTERNS['numbered'] = ^(\d+\.?\d*\s*)
NumberedMatch(s) == DigitAt(s, 1)

RomanSet == {"i", "v", "x", "l", "c", "d", "m", "I", "V", "X", "L", "C", "D", "M"}

\* PATTERNS['roman'] = ^[ivxlcdm]+\.?\s+  (IGNORECASE)
RomanMatch(s) ==
    LET r == RunFwd(s, 1, RomanSet)
    IN r >= 1 /\ (SpaceAt(s, r + 1) \/ (MatchAt(s, r + 1, ".") /\ SpaceAt(s, r + 2)))

\* PATTERNS['phone'] = \(\d{3}\)\s*\d{3}-\d{4}|\d{3}-\d{3}-\d{4}|\d{10}
PhoneSearch(s) ==
    \E i \in 1..Len(s) :
        \/ /\ MatchAt(s, i, "(") /\ DigitsAt(s, i + 1, 3) /\ MatchAt(s, i + 4, ")")
           /\ LET j == i + 5 + RunFwd(s, i + 5, SpaceSet)
              IN DigitsAt(s, j, 3) /\ MatchAt(s, j + 3, "-") /\ DigitsAt(s, j + 4, 4)
        \/ /\ DigitsAt(s, i, 3) /\ MatchAt(s, i + 3, "-")
           /\ DigitsAt(s, i + 4, 3) /\ MatchAt(s, i + 7, "-") /\ DigitsAt(s, i + 8, 4)
        \/ DigitsAt(s, i, 10)

\* a literal followed by \b, anywhere in s
LiteralThenBoundary(s, lit) ==
    \E i \in 1..Len(s) : MatchAt(s, i, lit) /\ WordBoundary(s, i + Len(lit) - 1)

\* PATTERNS['url'] = www\.|https?://|\.com\b|\.org\b|\.net\b  (IGNORECASE)
UrlSearch(s) ==
    LET t == ToLower(s)
    IN \/ Contains(t, "www.")
       \/ Contains(t, "http://")
       \/ Contains(t, "https://")
       \/ LiteralThenBoundary(t, ".com")
       \/ LiteralThenBoundary(t, ".org")
       \/ LiteralThenBoundary(t, ".net")

StreetWords ==
    <<"street", "st", "avenue", "ave", "road", "rd", "drive", "dr", "lane", "ln",
      "way", "blvd", "boulevard">>

\* PATTERNS['address'] = \d+\s+[\w\s]+(?:street|st|...|boulevard)  (IGNORECASE)
AddressSearch(s) ==
    LET t == ToLower(s)
    IN \E i \in 1..Len(t) :
         /\ DigitAt(t, i)
         /\ SpaceAt(t, i + 1)
         /\ \E m \in (i + 3)..Len(t) :
              /\ AllIn(t, i + 2, m - 1, WordSet \cup SpaceSet)
              /\ \E k \in 1..Len(StreetWords) : MatchAt(t, m, StreetWords[k])

EmailLocalSet == LowerSet \cup UpperSet \cup DigitSet \cup {".", "_", "%", "+", "-"}
EmailDomainSet == LowerSet \cup UpperSet \cup DigitSet \cup {".", "-"}
EmailTldSet == LowerSet \cup UpperSet \cup {"|"}

\* PATTERNS['email'] = \b[A-Za-z0-9._%+-]+@[A-Za-z0-9.-]+\.[A-Z|a-z]{2,}\b
EmailSearch(s) ==
    \E a \in 1..Len(s) :
        /\ Ch(s, a) = "@"
        /\ \E p \in 1..(a - 1) :
             AllIn(s, p, a - 1, EmailLocalSet) /\ WordBoundary(s, p - 1)
        /\ \E d \in (a + 2)..Len(s) :
             /\ Ch(s, d) = "."
             /\ AllIn(s, a + 1, d - 1, EmailDomainSet)
             /\ \E e \in (d + 2)..Len(s) :
                  AllIn(s, d + 1, e, EmailTldSet) /\ WordBoundary(s, e)

\* PATTERNS['noise'].match  (IGNORECASE); the alternative ^(c) needs a
\* character outside ASCII and is never taken on the texts modelled here
NoiseMatch(s) ==
    LET t == ToLower(s)
    IN \/ Len(t) >= 1 /\ AllIn(t, 1, Len(t), DigitSet)
       \/ StartsWith(t, "page") /\ SpaceAt(t, 5) /\ DigitAt(t, 5 + RunFwd(t, 5, SpaceSet))
       \/ /\ StartsWith(t, "fig")
          /\ \E k \in 0..RunFwd(t, 4, WordSet) :
                DigitAt(t, 4 + k + RunFwd(t, 4 + k, SpaceSet))
       \/ StartsWith(t, "table") /\ DigitAt(t, 6 + RunFwd(t, 6, SpaceSet))
       \/ StartsWith(t, "www.")
       \/ StartsWith(t, "http://")
       \/ StartsWith(t, "https://")
       \/ Len(t) >= 2 /\ StartsWith(t, "[") /\ EndsWith(t, "]") /\ ~Contains(t, "\n")
       \/ StartsWith(t, "copyright")
       \/ StartsWith(t, "all rights reserved")
       \/ AllIn(t, 1, Len(t), SpaceSet)

(***************************************************************************)
(* utils: the text predicates                                              *)
(***************************************************************************)
is_heading_case(text) ==
    /\ text # ""
    /\ \/ IsUpperStr(text) /\ Len(text) > 2
       \/ IsTitleStr(text)
       \/ NumberedMatch(text)
       \/ RomanMatch(text)

is_noise_text(text) ==
    \/ text = ""
    \/ LET text_clean == Strip(text)
       IN \/ NoiseMatch(text_clean)
          \/ Len(text_clean) < 2
          \/ (Len(text_clean) >= 1 /\ AllIn(text_clean, 1, Len(text_clean), DigitSet))
          \/ UrlSearch(text_clean)
          \/ EmailSearch(text_clean)

is_contact_info(text) ==
    \/ PhoneSearch(text)
    \/ UrlSearch(ToLower(text))
    \/ EmailSearch(text)
    \/ AddressSearch(text)

(***************************************************************************)
(* Numbers.  Font sizes and averages are fractions [n, d] with d > 0; the  *)
(* source computes them in floating point, and every comparison below is   *)
(* the exact comparison of the same quantities.                            *)
(***************************************************************************)
Frac(n, d) == [n |-> n, d |-> d]

\* a >= b + h/2 for fractions a, b and an integer number h of halves
AtLeastPlus(a, b, h) == 2 * a.n * b.d >= (2 * b.n + h * b.d) * a.d

\* a > b + h/2
AbovePlus(a, b, h) == 2 * a.n * b.d > (2 * b.n + h * b.d) * a.d

FracLess(a, b) == a.n * b.d < b.n * a.d

Max2(a, b) == IF a >= b THEN a ELSE b
Min2(a, b) == IF a <= b THEN a ELSE b
Abs(a) == IF a >= 0 THEN a ELSE -a

RECURSIVE SumRange(_, _, _)
SumRange(q, lo, hi) ==
    IF lo > hi THEN 0
    ELSE IF lo = hi THEN q[lo]
    ELSE LET mid == (lo + hi) \div 2
         IN SumRange(q, lo, mid) + SumRange(q, mid + 1, hi)

SumSeq(q) == SumRange(q, 1, Len(q))

\* the concatenation of a list of lists
RECURSIVE FlattenRange(_, _, _)
FlattenRange(q, lo, hi) ==
    IF lo > hi THEN <<>>
    ELSE IF lo = hi THEN q[lo]
    ELSE LET mid == (lo + hi) \div 2
         IN FlattenRange(q, lo, mid) \o FlattenRange(q, mid + 1, hi)

Flatten(q) == FlattenRange(q, 1, Len(q))

\* the list f, held as a tuple (f \o <<>> = f for every list f)
AsList(f) == f \o <<>>

Map(q, Op(_)) == AsList([i \in 1..Len(q) |-> Op(q[i])])

\* number of entries of the list q that satisfy Test (sum(1 for x in q if ...))
CountIf(q, Test(_)) == Cardinality({i \in 1..Len(q) : Test(q[i])})

(***************************************************************************)
(* What the parsing layer hands over.  A block is a record with a bbox     *)
(* <<x0, y0, x1, y1>> and, unless it is an image block, "lines"; a line    *)
(* has "spans"; a span has "text", "size", "font" and "flags".  A key the  *)
(* source reads with [...] and that is missing raises KeyError there.      *)
(***************************************************************************)
HasLines(block) == "lines" \in DOMAIN block
HasSpans(line) == "spans" \in DOMAIN line
HasText(span) == "text" \in DOMAIN span

\* the lines of a page in scan order, each with its block
LinesOf(blocks) ==
    Flatten([b \in 1..Len(blocks) |->
               IF HasLines(blocks[b])
               THEN AsList([l \in 1..Len(blocks[b].lines) |->
                              [block |-> blocks[b], line |-> blocks[b].lines[l]]])
               ELSE <<>>])

BoldIndicators == <<"bold", "black", "heavy", "semibold", "demi">>

\* utils.is_bold
is_bold(span) ==
    LET font_name == ToLower(span.font)
    IN \/ \E k \in 1..Len(BoldIndicators) : Contains(font_name, BoldIndicators[k])
       \/ (span.flags \div 16) % 2 = 1

\* utils.is_centered: abs((x0 + x1)/2 - w/2) / w < pct/100
is_centered(block, page_width, pct) ==
    Abs(block.bbox[1] + block.bbox[3] - page_width) * 100 < 2 * pct * page_width

\* utils.is_top_of_page: y0 < h * pct/100
is_top_of_page(block, page_height, pct) == block.bbox[2] * 100 < page_height * pct

\* utils.extract_page_position: y0 / max(h, 1)
extract_page_position(block, page_height) == Frac(block.bbox[2], Max2(page_height, 1))

\* "".join(span["text"] for span in spans).strip(), then clean_heading_text
LineText(spans) == clean_heading_text(Strip(JoinStr(Map(spans, LAMBDA sp : sp.text))))

\* sum(font_sizes) / len(font_sizes)
LineSize(spans) == Frac(SumSeq(Map(spans, LAMBDA sp : sp.size)), Len(spans))

\* sum(bold_spans) / len(bold_spans) > 0.5
LineBold(spans) == 2 * CountIf(spans, is_bold) > Len(spans)

(***************************************************************************)
(* utils.calculate_text_stats.  Only avg_font_size is read by the callers; *)
(* the standard deviation and the line heights are left out.               *)
(***************************************************************************)
DefaultFontSize == 12

StatsRaises(blocks) ==
    \E b \in 1..Len(blocks) :
        HasLines(blocks[b]) /\ \E l \in 1..Len(blocks[b].lines) : ~HasSpans(blocks[b].lines[l])

calculate_text_stats(blocks) ==
    LET spans == Flatten(Map(LinesOf(blocks), LAMBDA x : x.line.spans))
        font_sizes == Map(SelectSeq(spans, LAMBDA sp : HasText(sp) /\ Strip(sp.text) # ""),
                          LAMBDA sp : sp.size)
    IN IF font_sizes = <<>>
       THEN [avg_font_size |-> Frac(DefaultFontSize, 1), total_text_blocks |-> 0]
       ELSE [avg_font_size |-> Frac(SumSeq(font_sizes), Len(font_sizes)),
             total_text_blocks |-> Len(font_sizes)]

(***************************************************************************)
(* utils.detect_outline_from_toc.  toc is doc.get_toc(): a list of         *)
(* <<level, title, page>>.                                                 *)
(***************************************************************************)
LevelName(n) == "H" \o ToString(n)

\* TocEntryKept without the upper bound on the level
TocEntryKept_AnyLevel(item) ==
    /\ Len(item) >= 3
    /\ 1 <= item[1]
    /\ Len(clean_heading_text(item[2])) > 1

TocEntryKept(item) ==
    /\ Len(item) >= 3
    /\ 1 <= item[1] /\ item[1] <= 3
    /\ Len(clean_heading_text(item[2])) > 1

TocHeading(item) ==
    [level |-> LevelName(item[1]),
     text |-> clean_heading_text(item[2]),
     page |-> Max2(1, item[3])]

detect_outline_from_toc(toc) == Map(SelectSeq(toc, TocEntryKept), TocHeading)

(***************************************************************************)
(* document_types.DocumentTypeDetector                                     *)
(***************************************************************************)
promotional_indicators ==
    <<"you're invited", "hope to see you", "party", "celebration",
      "join us", "rsvp", "required", "please visit", "event",
      "special", "don't miss", "save the date", "come join">>

formal_indicators ==
    <<"introduction", "conclusion", "methodology", "abstract",
      "chapter", "section", "appendix", "references", "table of contents",
      "executive summary", "background", "literature review">>

academic_indicators ==
    <<"abstract", "thesis", "dissertation", "research", "hypothesis",
      "methodology", "results", "discussion", "conclusion", "bibliography">>

IndicatorCount(indicators, text_lower) ==
    CountIf(indicators, LAMBDA ind : Contains(text_lower, ind))

ContactPatternCount(text_lower) ==
    (IF PhoneSearch(text_lower) THEN 1 ELSE 0)
    + (IF UrlSearch(text_lower) THEN 1 ELSE 0)
    + (IF AddressSearch(text_lower) THEN 1 ELSE 0)

\* the decision with the academic rule asking for 3 indicators
DocumentTypeDetector_detect_document_type_AcademicThree(text_sample) ==
    LET text_lower == ToLower(text_sample)
        promotional_count == IndicatorCount(promotional_indicators, text_lower)
        formal_count == IndicatorCount(formal_indicators, text_lower)
        academic_count == IndicatorCount(academic_indicators, text_lower)
        contact_count == ContactPatternCount(text_lower)
    IN IF promotional_count >= 2 \/ contact_count >= 2 THEN "promotional"
       ELSE IF academic_count >= 3 THEN "academic"
       ELSE IF formal_count >= 2 THEN "formal"
       ELSE "general"

\* the decision with the formal rule tried before the academic one
DocumentTypeDetector_detect_document_type_FormalFirst(text_sample) ==
    LET text_lower == ToLower(text_sample)
        promotional_count == IndicatorCount(promotional_indicators, text_lower)
        formal_count == IndicatorCount(formal_indicators, text_lower)
        academic_count == IndicatorCount(academic_indicators, text_lower)
        contact_count == ContactPatternCount(text_lower)
    IN IF promotional_count >= 2 \/ contact_count >= 2 THEN "promotional"
       ELSE IF formal_count >= 2 THEN "formal"
       ELSE IF academic_count >= 2 THEN "academic"
       ELSE "general"

DocumentTypeDetector_detect_document_type(text_sample) ==
    LET text_lower == ToLower(text_sample)
        promotional_count == IndicatorCount(promotional_indicators, text_lower)
        formal_count == IndicatorCount(formal_indicators, text_lower)
        academic_count == IndicatorCount(academic_indicators, text_lower)
        contact_count == ContactPatternCount(text_lower)
    IN IF promotional_count >= 2 \/ contact_count >= 2 THEN "promotional"
       ELSE IF academic_count >= 2 THEN "academic"
       ELSE IF formal_count >= 2 THEN "formal"
       ELSE "general"

\* page.get_text(): the text of the page's lines, one per line
PageText(page) ==
    JoinStr(Map(LinesOf(page.blocks),
                LAMBDA x : IF HasSpans(x.line)
                           THEN JoinStr(Map(x.line.spans,
                                            LAMBDA sp : IF HasText(sp) THEN sp.text ELSE ""))
                                \o "\n"
                           ELSE ""))

TypeSamplePages == 3

\* extractor.detect_document_type: the lower-cased text of the first pages
\* that can be read
TypeSample(pages) ==
    JoinStr([p \in 1..Min2(TypeSamplePages, Len(pages)) |->
               IF pages[p].readable THEN ToLower(PageText(pages[p])) ELSE ""])

detect_document_type(pages) == DocumentTypeDetector_detect_document_type(TypeSample(pages))

(***************************************************************************)
(* Sorting as sorted() does it: stable, by a strict order on the keys      *)
(* (for reverse=True the order is "greater", and equal keys keep their     *)
(* original order too).                                                    *)
(***************************************************************************)
StableSort(q, Before(_, _)) ==
    LET n == Len(q)
        \* the place of q[i]: after every entry that sorts before it, and
        \* after the earlier entries with an equal key
        place == AsList([i \in 1..n |->
                           1 + Cardinality({j \in 1..n :
                                              \/ Before(q[j], q[i])
                                              \/ j < i /\ ~Before(q[i], q[j])})])
    IN AsList([k \in 1..n |-> q[CHOOSE i \in 1..n : place[i] = k]])

\* q[:n]
Prefix(q, n) == SubSeq(q, 1, Min2(n, Len(q)))

(***************************************************************************)
(* document_types.PromotionalHandler                                       *)
(***************************************************************************)
high_priority_phrases ==
    <<"you're invited", "hope to see you", "party", "celebration",
      "join us", "rsvp", "required", "please visit", "come join",
      "special event", "don't miss", "save the date">>

PhraseCount(text_lower) == IndicatorCount(high_priority_phrases, text_lower)

is_promotional_heading(text, font_size, bold, centered, avg_font_size) ==
    LET text_lower == Strip(ToLower(text))
        emphasis_score ==
            (IF AbovePlus(font_size, avg_font_size, 4) THEN 3
             ELSE IF AbovePlus(font_size, avg_font_size, 2) THEN 2 ELSE 0)
            + (IF bold THEN 2 ELSE 0)
            + (IF centered THEN 2 ELSE 0)
            + (IF IsUpperStr(text) /\ Len(text) > 4 THEN 2
               ELSE IF IsTitleStr(text) THEN 1 ELSE 0)
            + (IF Contains(text, "!") THEN 1 ELSE 0)
    IN IF Len(text) < 3 THEN FALSE
       ELSE IF is_contact_info(text) THEN bold /\ AbovePlus(font_size, avg_font_size, 4)
       ELSE IF PhraseCount(text_lower) > 0 THEN TRUE
       ELSE emphasis_score >= 3

\* the score as a fraction: the terms other than the size ratio are counted
\* in halves (1.5 per "!"), the size ratio is font_size / max(avg, 1)
calculate_importance_score(text, font_size, bold, centered, avg_font_size, page_position) ==
    LET avg1 == IF FracLess(avg_font_size, Frac(1, 1)) THEN Frac(1, 1) ELSE avg_font_size
        halves ==
            20 * PhraseCount(ToLower(text))
            + (IF bold THEN 8 ELSE 0)
            + (IF centered THEN 6 ELSE 0)
            + (IF IsUpperStr(text) THEN 4 ELSE 0)
            + 3 * CountChar(text, "!")
            + (IF 10 * page_position.n < 3 * page_position.d THEN 4
               ELSE IF 10 * page_position.n > 7 * page_position.d THEN 2 ELSE 0)
            + (IF 5 <= Len(text) /\ Len(text) <= 50 THEN 2
               ELSE IF Len(text) > 100 THEN -4 ELSE 0)
        ratio_n == 3 * font_size.n * avg1.d
        ratio_d == font_size.d * avg1.n
    IN Frac(2 * ratio_n + halves * ratio_d, 2 * ratio_d)

(***************************************************************************)
(* document_types.FormalHandler                                            *)
(***************************************************************************)
\* ^pre\s+\d+ on lower-cased text
PrefixSpaceDigit(t, pre) ==
    /\ StartsWith(t, pre)
    /\ SpaceAt(t, Len(pre) + 1)
    /\ DigitAt(t, Len(pre) + 1 + RunFwd(t, Len(pre) + 1, SpaceSet))

\* ^\d+\.?\s+
NumberedSectionMatch(s) ==
    LET r == RunFwd(s, 1, DigitSet)
    IN r >= 1 /\ (SpaceAt(s, r + 1) \/ (MatchAt(s, r + 1, ".") /\ SpaceAt(s, r + 2)))

FormalSectionMatch(text) ==
    LET t == ToLower(text)
    IN \/ NumberedSectionMatch(text)
       \/ RomanMatch(text)
       \/ PrefixSpaceDigit(t, "chapter")
       \/ PrefixSpaceDigit(t, "section")
       \/ PrefixSpaceDigit(t, "part")

is_formal_heading(text, font_size, bold, centered, top, avg_font_size) ==
    \/ AtLeastPlus(font_size, avg_font_size, 4)
    \/ bold /\ (IsUpperStr(text) \/ IsTitleStr(text))
    \/ (centered \/ top) /\ (IsUpperStr(text) \/ IsTitleStr(text))
    \/ FormalSectionMatch(text)

\* None is the empty string
FormalHandler_detect_heading_level(text, font_size, bold, centered, top, avg_font_size) ==
    IF ~is_formal_heading(text, font_size, bold, centered, top, avg_font_size) THEN ""
    ELSE IF AtLeastPlus(font_size, avg_font_size, 8) THEN "H1"
    ELSE IF centered /\ bold /\ AtLeastPlus(font_size, avg_font_size, 4) THEN "H1"
    ELSE IF AtLeastPlus(font_size, avg_font_size, 4) THEN "H2"
    ELSE IF bold /\ AtLeastPlus(font_size, avg_font_size, 2) THEN "H2"
    ELSE "H3"

(***************************************************************************)
(* detector.HeuristicDetector                                              *)
(***************************************************************************)
\* special_patterns, each .match on the text (IGNORECASE)
ChapterMatch(text) ==
    LET t == ToLower(text)
    IN PrefixSpaceDigit(t, "chapter") \/ PrefixSpaceDigit(t, "ch") \/ PrefixSpaceDigit(t, "ch.")

SectionMatch(text) ==
    LET t == ToLower(text)
    IN PrefixSpaceDigit(t, "section") \/ PrefixSpaceDigit(t, "sec") \/ PrefixSpaceDigit(t, "sec.")

PartMatch(text) ==
    LET t == ToLower(text)
        After(pre) == Len(pre) + 1 + RunFwd(t, Len(pre) + 1, SpaceSet)
        Hit(pre) == /\ StartsWith(t, pre) /\ SpaceAt(t, Len(pre) + 1)
                    /\ After(pre) <= Len(t)
                    /\ Ch(t, After(pre)) \in (RomanSet \cup DigitSet)
    IN Hit("part") \/ Hit("pt") \/ Hit("pt.")

AppendixMatch(text) ==
    LET t == ToLower(text)
    IN StartsWith(t, "appendix") \/ StartsWith(t, "app")

FigureTableMatch(text) ==
    LET t == ToLower(text)
    IN \/ PrefixSpaceDigit(t, "figure") \/ PrefixSpaceDigit(t, "fig")
       \/ PrefixSpaceDigit(t, "fig.") \/ PrefixSpaceDigit(t, "table")
       \/ PrefixSpaceDigit(t, "tbl") \/ PrefixSpaceDigit(t, "tbl.")

is_general_heading(text, font_size, bold, centered, top, avg_font_size) ==
    \/ AtLeastPlus(font_size, avg_font_size, 6)
    \/ bold /\ AtLeastPlus(font_size, avg_font_size, 3)
    \/ (centered \/ top) /\ is_heading_case(text)
    \/ ChapterMatch(text) \/ SectionMatch(text) \/ PartMatch(text)
    \/ AppendixMatch(text) \/ FigureTableMatch(text)
    \/ (NumberedMatch(text) \/ RomanMatch(text)) /\ Len(text) > 5

is_likely_heading(text, font_size, bold, avg_font_size, centered, top, doc_type) ==
    IF text = "" \/ Len(Strip(text)) < 2 THEN FALSE
    ELSE IF is_noise_text(text) THEN FALSE
    ELSE IF FigureTableMatch(text) /\ ~bold THEN FALSE
    ELSE IF doc_type = "promotional"
         THEN is_promotional_heading(text, font_size, bold, centered, avg_font_size)
    ELSE IF doc_type = "formal"
         THEN is_formal_heading(text, font_size, bold, centered, top, avg_font_size)
    ELSE is_general_heading(text, font_size, bold, centered, top, avg_font_size)

detect_promotional_level(text, font_size, bold, centered, avg_font_size) ==
    LET text_lower == ToLower(text)
    IN IF \E ph \in {"you're invited", "hope to see you", "party", "celebration"} :
             Contains(text_lower, ph)
       THEN "H1"
       ELSE IF AbovePlus(font_size, avg_font_size, 6) /\ bold /\ centered THEN "H1"
       ELSE IF AbovePlus(font_size, avg_font_size, 8) THEN "H1"
       ELSE IF AbovePlus(font_size, avg_font_size, 4) /\ (bold \/ centered) THEN "H2"
       ELSE IF IsUpperStr(text) /\ Len(text) > 4 /\ AbovePlus(font_size, avg_font_size, 0)
            THEN "H2"
       ELSE "H3"

detect_general_level(text, font_size, bold, centered, top, avg_font_size) ==
    IF AtLeastPlus(font_size, avg_font_size, 8) \/ ChapterMatch(text) \/ PartMatch(text)
    THEN "H1"
    ELSE IF centered /\ bold /\ AtLeastPlus(font_size, avg_font_size, 4) THEN "H1"
    ELSE IF AtLeastPlus(font_size, avg_font_size, 4) \/ SectionMatch(text) THEN "H2"
    ELSE IF bold /\ AtLeastPlus(font_size, avg_font_size, 2) THEN "H2"
    ELSE "H3"

\* None is the empty string
detect_heading_level(text, font_size, bold, avg_font_size, centered, top, doc_type) ==
    IF ~is_likely_heading(text, font_size, bold, avg_font_size, centered, top, doc_type)
    THEN ""
    ELSE IF doc_type = "promotional"
         THEN detect_promotional_level(text, font_size, bold, centered, avg_font_size)
    ELSE IF doc_type = "formal"
         THEN FormalHandler_detect_heading_level(text, font_size, bold, centered, top,
                                                 avg_font_size)
    ELSE detect_general_level(text, font_size, bold, centered, top, avg_font_size)

\* int(heading['level'][1])
LevelNumber(level) == (CHOOSE i \in 1..Len(DigitChars) : Ch(DigitChars, i) = Ch(level, 2)) - 1

LevelScore(level) ==
    IF level = "H1" THEN 8 ELSE IF level = "H2" THEN 5 ELSE IF level = "H3" THEN 2 ELSE 0

LevelOrder(level) ==
    IF level = "H1" THEN 1 ELSE IF level = "H2" THEN 2 ELSE IF level = "H3" THEN 3 ELSE 4

LongTextLen == 100

PromotionalRankScore(heading) ==
    10 * PhraseCount(ToLower(heading.text))
    + LevelScore(heading.level)
    - (IF Len(heading.text) > LongTextLen THEN 5 ELSE 0)

rank_promotional_headings(headings) ==
    StableSort(headings, LAMBDA a, b : PromotionalRankScore(a) > PromotionalRankScore(b))

\* the standard ranking with the page as the only key
rank_standard_headings_PageOnly(headings) ==
    StableSort(headings, LAMBDA a, b : a.page < b.page)

\* the key is (page, level_order, x.get('order', 0)); no heading has 'order'
rank_standard_headings(headings) ==
    StableSort(headings,
               LAMBDA a, b : \/ a.page < b.page
                             \/ a.page = b.page /\ LevelOrder(a.level) < LevelOrder(b.level))

rank_headings_by_importance(headings, doc_type) ==
    IF doc_type = "promotional"
    THEN rank_promotional_headings(headings)
    ELSE rank_standard_headings(headings)

(***************************************************************************)
(* utils.merge_similar_headings and utils.validate_heading_hierarchy.      *)
(* A heading is [level, text, page]; the headings of the heuristic path    *)
(* also carry "disc", the scan position of their line on the page, which   *)
(* the source does not store (its "order" key is never set): no operation  *)
(* reads it, it only lets properties speak of discovery order.             *)
(***************************************************************************)
RECURSIVE MergeLoop(_, _, _, _)
MergeLoop(headings, i, seen_text, merged) ==
    IF i > Len(headings) THEN merged
    ELSE LET text == Strip(ToLower(headings[i].text))
         IN IF text \in seen_text
            THEN MergeLoop(headings, i + 1, seen_text, merged)
            ELSE MergeLoop(headings, i + 1, seen_text \cup {text},
                           Append(merged, headings[i]))

\* merge_similar_headings that returns the kept headings last first
merge_similar_headings_Reversed(headings) ==
    LET merged == MergeLoop(headings, 1, {}, <<>>)
    IN [i \in 1..Len(merged) |-> merged[Len(merged) + 1 - i]]

\* merge_similar_headings that removes nothing
merge_similar_headings_Keep(headings) == headings

merge_similar_headings(headings) == MergeLoop(headings, 1, {}, <<>>)

RECURSIVE ValidateLoop(_, _, _, _)
ValidateLoop(outline_sorted, i, last_level, validated) ==
    IF i > Len(outline_sorted) THEN validated
    ELSE LET heading == outline_sorted[i]
             current_level == LevelNumber(heading.level)
         IN IF current_level > last_level + 1
            THEN ValidateLoop(outline_sorted, i + 1, last_level + 1,
                              Append(validated,
                                     [heading EXCEPT !.level = LevelName(last_level + 1)]))
            ELSE ValidateLoop(outline_sorted, i + 1, current_level,
                              Append(validated, heading))

\* x.get('order', 0); no heading built by the extractor has 'order'
OrderOf(x) == IF "order" \in DOMAIN x THEN x.order ELSE 0

\* the repair that leaves every level as it is
validate_heading_hierarchy_NoRepair(outline) ==
    StableSort(outline, LAMBDA a, b : \/ a.page < b.page
                                      \/ a.page = b.page /\ OrderOf(a) < OrderOf(b))

\* the repair with last_level starting at 1: a first heading of level 2 stays
validate_heading_hierarchy_FromOne(outline) ==
    IF outline = <<>> THEN outline
    ELSE ValidateLoop(StableSort(outline,
                                 LAMBDA a, b : \/ a.page < b.page
                                               \/ a.page = b.page /\ OrderOf(a) < OrderOf(b)),
                      1, 1, <<>>)

\* the sort key is (page, x.get('order', 0))
validate_heading_hierarchy(outline) ==
    IF outline = <<>> THEN outline
    ELSE ValidateLoop(StableSort(outline,
                                 LAMBDA a, b : \/ a.page < b.page
                                               \/ a.page = b.page /\ OrderOf(a) < OrderOf(b)),
                      1, 0, <<>>)

(***************************************************************************)
(* extractor.extract_page_headings and extract_promotional_headings        *)
(***************************************************************************)
CenterPct == 15
TopPct == 25

\* reading the line raises KeyError: line["spans"], or span["text"] of a
\* line that has spans
LineRaises(line) ==
    \/ ~HasSpans(line)
    \/ \E k \in 1..Len(line.spans) : ~HasText(line.spans[k])

\* scan positions of the lines handled before the first one that raises
ScannedBeforeRaise(lines) ==
    {i \in 1..Len(lines) : \A j \in 1..i : ~LineRaises(lines[j].line)}

\* the line is looked at: it has spans, and its text is long enough and new
LineConsidered(x, seen_headings) ==
    /\ x.line.spans # <<>>
    /\ LET text == LineText(x.line.spans)
       IN text # "" /\ Len(text) >= 2 /\ text \notin seen_headings

\* the entries of q at the positions in idx, in order
Pick(q, idx) ==
    AsList([k \in 1..Cardinality(idx) |->
              q[CHOOSE i \in idx : Cardinality({j \in idx : j <= i}) = k]])

StandardHeadingOf(x, i, page_num, page_width, page_height, stats, doc_type) ==
    [level |-> detect_heading_level(LineText(x.line.spans), LineSize(x.line.spans),
                                    LineBold(x.line.spans), stats.avg_font_size,
                                    is_centered(x.block, page_width, CenterPct),
                                    is_top_of_page(x.block, page_height, TopPct),
                                    doc_type),
     text |-> LineText(x.line.spans),
     page |-> page_num,
     disc |-> i]

\* the headings appended over the scan positions in idx
StandardScan(lines, idx, page_num, page_width, page_height, stats, doc_type, seen_headings) ==
    LET found == AsList([i \in 1..Len(lines) |->
                           IF i \in idx /\ LineConsidered(lines[i], seen_headings)
                           THEN StandardHeadingOf(lines[i], i, page_num, page_width,
                                                  page_height, stats, doc_type)
                           ELSE [level |-> ""]])
    IN Pick(found, {i \in 1..Len(lines) : found[i].level # ""})

PromotionalCandidateOf(x, i, page_num, page_width, page_height, stats) ==
    LET text == LineText(x.line.spans)
        avg_size == LineSize(x.line.spans)
        bold == LineBold(x.line.spans)
        centered == is_centered(x.block, page_width, CenterPct)
    IN [ok |-> is_promotional_heading(text, avg_size, bold, centered, stats.avg_font_size),
        text |-> text,
        importance |-> calculate_importance_score(text, avg_size, bold, centered,
                          stats.avg_font_size,
                          extract_page_position(x.block, page_height)),
        page |-> page_num,
        disc |-> i]

PagePromoLimit == 5

\* the levels with H1 given to the first two ranks
PromotionalLevel_TwoFirst(rank0) == IF rank0 <= 1 THEN "H1" ELSE IF rank0 <= 2 THEN "H2" ELSE "H3"

PromotionalLevel(rank0) == IF rank0 = 0 THEN "H1" ELSE IF rank0 <= 2 THEN "H2" ELSE "H3"

\* text_candidates after the scan of the positions in idx, in scan order
PromotionalCandidates(lines, idx, page_num, page_width, page_height, stats, seen_headings) ==
    LET cand == AsList([i \in 1..Len(lines) |->
                          IF i \in idx /\ LineConsidered(lines[i], seen_headings)
                          THEN PromotionalCandidateOf(lines[i], i, page_num, page_width,
                                                      page_height, stats)
                          ELSE [ok |-> FALSE]])
    IN Pick(cand, {i \in 1..Len(lines) : cand[i].ok})

PromotionalScan(lines, idx, page_num, page_width, page_height, stats, seen_headings) ==
    LET text_candidates == PromotionalCandidates(lines, idx, page_num, page_width,
                                                 page_height, stats, seen_headings)
        by_importance == StableSort(text_candidates,
                                    LAMBDA a, b : FracLess(b.importance, a.importance))
        top == Prefix(by_importance, PagePromoLimit)
    IN AsList([k \in 1..Len(top) |->
                 [level |-> PromotionalLevel(k - 1), text |-> top[k].text,
                  page |-> top[k].page, disc |-> top[k].disc]])

\* extract_promotional_headings: any exception gives []
extract_promotional_headings(blocks, page_num, page_width, page_height, stats, seen_headings) ==
    LET lines == LinesOf(blocks)
    IN IF \E i \in 1..Len(lines) : LineRaises(lines[i].line)
       THEN <<>>
       ELSE PromotionalScan(lines, 1..Len(lines), page_num, page_width, page_height,
                            stats, seen_headings)

\* extract_page_headings that returns what it had appended when a line raised
extract_page_headings_Partial(blocks, page_num, page_width, page_height, stats, doc_type, seen_headings) ==
    LET lines == LinesOf(blocks)
    IN IF doc_type = "promotional"
       THEN PromotionalScan(lines, ScannedBeforeRaise(lines), page_num, page_width,
                            page_height, stats, seen_headings)
       ELSE StandardScan(lines, ScannedBeforeRaise(lines), page_num, page_width,
                         page_height, stats, doc_type, seen_headings)

\* extract_page_headings: any exception gives []
extract_page_headings(blocks, page_num, page_width, page_height, stats, doc_type, seen_headings) ==
    LET lines == LinesOf(blocks)
    IN IF doc_type = "promotional"
       THEN extract_promotional_headings(blocks, page_num, page_width, page_height,
                                         stats, seen_headings)
       ELSE IF \E i \in 1..Len(lines) : LineRaises(lines[i].line)
       THEN <<>>
       ELSE StandardScan(lines, 1..Len(lines), page_num, page_width, page_height,
                         stats, doc_type, seen_headings)

(***************************************************************************)
(* extractor.post_process_outline.  Its except branch (outline[:10]) is    *)
(* not modelled: on headings built by the functions above, none of the     *)
(* three calls can raise.                                                  *)
(***************************************************************************)
PromotionalLimit == 5
StandardLimit == 50

\* post_process_outline without the final truncation
post_process_outline_Untruncated(outline, doc_type) ==
    IF outline = <<>> THEN outline
    ELSE rank_headings_by_importance(
             validate_heading_hierarchy(merge_similar_headings(outline)), doc_type)

post_process_outline(outline, doc_type) ==
    IF outline = <<>> THEN outline
    ELSE LET merged == merge_similar_headings(outline)
             validated == validate_heading_hierarchy(merged)
             ranked == rank_headings_by_importance(validated, doc_type)
         IN IF doc_type = "promotional"
            THEN Prefix(ranked, PromotionalLimit)
            ELSE Prefix(ranked, StandardLimit)

(***************************************************************************)
(* extractor.extract_title and calculate_title_score                       *)
(***************************************************************************)
\* the ASCII characters in code point order, for the comparison of strings
\* (without the grave accent, which a string of this module cannot hold)
AsciiOrder ==
    "\t\n !\"#$%&'()*+,-./0123456789:;<=>?@ABCDEFGHIJKLMNOPQRSTUVWXYZ[\\]^_abcdefghijklmnopqrstuvwxyz{|}~"

Ord(c) == CHOOSE i \in 1..Len(AsciiOrder) : Ch(AsciiOrder, i) = c

\* a < b for str
StrLess(a, b) ==
    LET diff == {i \in 1..Min2(Len(a), Len(b)) : Ch(a, i) # Ch(b, i)}
    IN IF diff = {} THEN Len(a) < Len(b)
       ELSE LET k == CHOOSE i \in diff : \A j \in diff : i <= j
            IN Ord(Ch(a, k)) < Ord(Ch(b, k))

TitleCenterPct == 20
TitleTopPct == 30
TitleMinLen == 5

\* the score as a fraction: min(2 * size / max(avg, 1), 5) plus the bonuses
calculate_title_score(text, spans, block, page_width, page_height, stats) ==
    LET avg_size == LineSize(spans)
        avg1 == IF FracLess(stats.avg_font_size, Frac(1, 1))
                THEN Frac(1, 1) ELSE stats.avg_font_size
        twice == Frac(2 * avg_size.n * avg1.d, avg_size.d * avg1.n)
        size_part == IF FracLess(Frac(5, 1), twice) THEN Frac(5, 1) ELSE twice
        bonus ==
            (IF LineBold(spans) THEN 3 ELSE 0)
            + (IF is_centered(block, page_width, TitleCenterPct) THEN 3 ELSE 0)
            + (IF is_top_of_page(block, page_height, TitleTopPct) THEN 2 ELSE 0)
            + (IF 10 <= Len(text) /\ Len(text) <= 80 THEN 2
               ELSE IF Len(text) > 100 THEN -2 ELSE 0)
            + (IF is_heading_case(text) THEN 1 ELSE 0)
            - (IF is_contact_info(text) \/ is_noise_text(text) THEN 5 ELSE 0)
    IN Frac(size_part.n + bonus * size_part.d, size_part.d)

\* (score, text) tuples compare by score, then by text
TitleTupleGreater(a, b) ==
    \/ FracLess(b.score, a.score)
    \/ ~FracLess(a.score, b.score) /\ StrLess(b.text, a.text)

\* title_candidates after the scan of the first page, in scan order; stats is
\* a stats record, or [none |-> TRUE] for the call without stats
TitleCandidates(page, stats) ==
    LET lines == LinesOf(page.blocks)
        use_stats == IF "none" \in DOMAIN stats
                     THEN calculate_text_stats(page.blocks) ELSE stats
        cand == AsList([i \in 1..Len(lines) |->
                   IF lines[i].line.spans = <<>> THEN [ok |-> FALSE]
                   ELSE LET text == LineText(lines[i].line.spans)
                        IN IF text = "" \/ Len(text) < TitleMinLen \/ is_noise_text(text)
                           THEN [ok |-> FALSE]
                           ELSE [ok |-> TRUE, text |-> text,
                                 score |-> calculate_title_score(text, lines[i].line.spans,
                                              lines[i].block, page.width, page.height,
                                              use_stats)]])
    IN Pick(cand, {i \in 1..Len(lines) : cand[i].ok})

\* Strategy 2 of extract_title on the first page
FirstPageTitle(page, stats) ==
    LET lines == LinesOf(page.blocks)
        title_candidates == TitleCandidates(page, stats)
    IN IF ~page.readable \/ (\E i \in 1..Len(lines) : LineRaises(lines[i].line))
       THEN ""
       ELSE IF title_candidates = <<>> THEN ""
       ELSE StableSort(title_candidates, TitleTupleGreater)[1].text

extract_title(d, stats) ==
    LET title == Strip(d.metadata_title)
    IN IF title # "" /\ ~EndsWith(ToLower(title), ".pdf")
       THEN clean_heading_text(title)
       ELSE IF Len(d.pages) > 0 THEN FirstPageTitle(d.pages[1], stats)
       ELSE ""

NoStats == [none |-> TRUE]

(***************************************************************************)
(* The documents.  Pages are 600 x 800; a block sits centred at the top,   *)
(* centred in the middle, or at the left in the middle or at the bottom.   *)
(***************************************************************************)
TopCentre == <<200, 50, 400, 70>>
MidCentre == <<200, 400, 400, 420>>
MidLeft == <<50, 400, 250, 420>>
BottomLeft == <<50, 700, 250, 720>>

Span(text, size, bold) ==
    [text |-> text, size |-> size,
     font |-> IF bold THEN "Helvetica-Bold" ELSE "Helvetica", flags |-> 0]

\* a block of one line of one span
Block(bbox, text, size, bold) ==
    [bbox |-> bbox, lines |-> <<[spans |-> <<Span(text, size, bold)>>]>>]

ImageBlock == [bbox |-> MidLeft]

\* a block whose second line has a span without "text"
BadSpanBlock ==
    [bbox |-> MidLeft,
     lines |-> <<[spans |-> <<Span("Sec. 7 Tools", 12, FALSE)>>],
                 [spans |-> <<[size |-> 12, font |-> "Helvetica", flags |-> 0]>>]>>]

\* a block whose line has no "spans"
BadLineBlock == [bbox |-> MidLeft, lines |-> <<[bbox |-> MidLeft]>>]

\* a block of two lines, the first of two spans (the bold flag is bit 16)
TwoLineBlock ==
    [bbox |-> MidLeft,
     lines |-> <<[spans |-> <<[text |-> "  Sec. 2 ", size |-> 12, font |-> "Times", flags |-> 16],
                              Span("Scope ....  4", 12, FALSE)>>],
                 [spans |-> <<>>],
                 [spans |-> <<Span("the quick brown fox", 12, FALSE)>>]>>]

Page(blocks) ==
    [readable |-> TRUE, width |-> 600, height |-> 800, blocks |-> blocks]

Unreadable(page) == [page EXCEPT !.readable = FALSE]

BChapter == Block(MidLeft, "Chapter 1 Intro", 12, FALSE)
BChapterCaps == Block(MidLeft, "CHAPTER 1 INTRO", 12, FALSE)
BSec == Block(MidLeft, "Sec. 2 Scope", 12, FALSE)
BNum == Block(MidLeft, "1. Overview", 12, FALSE)
BBody == Block(MidLeft, "the quick brown fox", 12, FALSE)
BBig == Block(TopCentre, "Results", 18, TRUE)
BNoise == Block(BottomLeft, "Page 3", 12, FALSE)
BIntro == Block(MidLeft, "Introduction", 14, TRUE)
BAbstract == Block(TopCentre, "Abstract", 16, FALSE)
BMethod == Block(MidLeft, "2 Methodology", 12, FALSE)

BInvited == Block(TopCentre, "You're Invited", 24, TRUE)
BRsvp == Block(MidLeft, "RSVP", 12, FALSE)
BGrand == Block(MidCentre, "GRAND OPENING", 18, TRUE)
BFree == Block(MidCentre, "Free Food!", 18, TRUE)
BParty == Block(TopCentre, "Birthday Party", 20, TRUE)
BJoin == Block(MidCentre, "Join Us", 16, FALSE)
BSave == Block(BottomLeft, "Save The Date", 16, FALSE)
BPartyLow == Block(BottomLeft, "birthday party", 12, FALSE)
BSite == Block(BottomLeft, "www.party.com", 20, TRUE)
BPhone == Block(BottomLeft, "Call 555-123-4567", 12, FALSE)
BWeb == Block(BottomLeft, "www.acme.org", 12, FALSE)
BLive == Block(MidCentre, "LIVE MUSIC", 18, TRUE)

StandardPages ==
    {Page(<<BChapter, BBody, BSec, BNum>>),
     Page(<<BNum, TwoLineBlock, BChapter>>),
     Page(<<BChapter, BNum>>),
     Page(<<BChapterCaps, BSec, ImageBlock, BBig, BNoise>>),
     Page(<<>>),
     Page(<<BIntro, BChapter, BBody>>),
     Page(<<BAbstract, BMethod, BBody, BNum>>)}

FaultyPages ==
    {Unreadable(Page(<<BChapter, BSec, BNum>>)),
     Page(<<BChapter, BadSpanBlock, BSec>>),
     Page(<<BSec, BadLineBlock>>)}

PromotionalPages ==
    {Page(<<BInvited, BFree, BRsvp, BGrand>>),
     Page(<<BParty, BJoin, BSave>>),
     Page(<<BPartyLow, BSite, BPhone>>)}

\* six promotional headings, two of them alike in everything but the words
SixHeadingPage == Page(<<BInvited, BGrand, BFree, BLive, BRsvp, BJoin>>)

\* an academic page that gives a web address and a telephone number
AcademicContactPage == Page(<<BAbstract, BMethod, BWeb, BPhone>>)

\* the same words twice, the plain line before the prominent one
TwiceNamedPage == Page(<<BPartyLow, BParty, BJoin>>)

PageCatalog == StandardPages \cup FaultyPages

PromotionalCatalog == PromotionalPages \cup {Page(<<BChapter, BBody, BSec, BNum>>)}

\* the native outlines: entries with levels inside and outside 1..3, titles
\* that clean to less than 2 characters, equal titles, pages below 1
TocEntries ==
    {<<1, "Intro", 1>>, <<2, "Scope 2", 2>>, <<3, "intro", -1>>,
     <<4, "Deep", 5>>, <<2, "..", 3>>, <<1, "A.", 0>>}

\* a long native outline, and a long document of numbered headings
LongTocEntry(i) == <<1 + (i % 3), ToString(i) \o ". Topic", i>>

LongToc(n) == AsList([i \in 1..n |-> LongTocEntry(i)])

LongPageBlock(i) ==
    Block(MidLeft,
          IF i % 3 = 0 THEN "Chapter " \o ToString(i) \o " Intro"
          ELSE IF i % 3 = 1 THEN "Sec. " \o ToString(i) \o " Scope"
          ELSE ToString(i) \o ". Overview",
          12, FALSE)

LongPages(n) ==
    <<Page(AsList([i \in 1..(n \div 2) |-> LongPageBlock(i)])),
      Page(AsList([i \in 1..(n - n \div 2) |-> LongPageBlock(n \div 2 + i)]))>>

MaxPages == 2
MaxToc == 4
LongTocLen == 51
LongDocLines == 60

SeqsUpTo(S, n) == UNION {[1..k -> S] : k \in 0..n}

NonEmptySeqsUpTo(S, n) == UNION {[1..k -> S] : k \in 1..n}

Doc(openable, toc, metadata_title, pages) ==
    [openable |-> openable, toc |-> toc, metadata_title |-> metadata_title,
     pages |-> pages]

Documents ==
    \* documents that cannot be opened
    {Doc(FALSE, <<>>, "", <<>>)}
    \* documents without a native outline
    \cup {Doc(TRUE, <<>>, "", pages) : pages \in NonEmptySeqsUpTo(PageCatalog, MaxPages)}
    \cup {Doc(TRUE, <<>>, "", pages) :
            pages \in NonEmptySeqsUpTo(PromotionalCatalog, MaxPages)}
    \* documents with a native outline
    \cup {Doc(TRUE, toc, "", <<Page(<<BChapter>>)>>) :
            toc \in SeqsUpTo(TocEntries, MaxToc)}
    \* documents with a metadata title
    \cup {Doc(TRUE, toc, t, pages) :
            toc \in {<<>>, LongToc(3)},
            t \in {"Annual Report 2024", "scan0001.PDF", "  ", "Q3 ..."},
            pages \in {<<Page(<<>>)>>, <<Page(<<BBig, BChapter>>)>>}}
    \* long documents
    \cup {Doc(TRUE, LongToc(LongTocLen), "", pages) :
            pages \in {<<Page(<<BBody>>)>>, <<Page(<<BInvited, BRsvp>>)>>}}
    \cup {Doc(TRUE, <<>>, "", LongPages(LongDocLines))}
    \cup {Doc(TRUE, <<>>, "", <<SixHeadingPage>>)}
    \cup {Doc(TRUE, <<>>, "", <<TwiceNamedPage>>)}
    \cup {Doc(TRUE, <<>>, "", <<AcademicContactPage>>)}

(***************************************************************************)
(* extract_outline, in the stretches between which it can be observed.     *)
(***************************************************************************)
VARIABLES
    doc,           \* the document handed to extract_outline
    pc,            \* where extract_outline is
    handle,        \* "none", "open" or "closed": the fitz document
    toc_outline,
    doc_type,
    stats,
    title,
    outline,
    seen_headings,
    page_num,      \* the loop variable of the page loop (0-based)
    result,        \* the returned record, once pc = "done"
    input_dir,     \* main: the input directory, whether it exists and its files
    main_pc,       \* main: where the batch driver is ("none": no batch run)
    pdf_files,     \* main: the files found, in processing order
    file_num,      \* main: the files handled so far
    results,       \* main: the records returned by process_pdf
    output_dir,    \* the JSON files written, by file name
    summary,       \* processing_summary.json, once written
    exit_code,     \* <<status>> once the process has ended, <<>> before
    call,          \* a function of utils called on its own: its name and argument
    ret            \* what that call returned

\* the state of the batch driver, which extract_outline does not touch
main_state == <<input_dir, main_pc, pdf_files, file_num, results, output_dir, summary,
                exit_code>>

\* a call of one function on its own, outside extract_outline and main
unit_state == <<call, ret>>

vars == <<doc, pc, handle, toc_outline, doc_type, stats, title, outline,
          seen_headings, page_num, result, main_state, unit_state>>

NoCall == [fn |-> "none"]
NoReturn == [pending |-> TRUE]

NoDirectory == [exists |-> FALSE, files |-> <<>>]
NoSummary == [pending |-> TRUE]

\* no batch run: extract_outline is called on its own
NoBatch ==
    /\ input_dir = NoDirectory
    /\ main_pc = "none"
    /\ pdf_files = <<>>
    /\ file_num = 0
    /\ results = <<>>
    /\ output_dir = <<>>
    /\ summary = NoSummary
    /\ exit_code = <<>>

NoResult == [pending |-> TRUE]

Init ==
    /\ doc \in Documents
    /\ pc = "open"
    /\ handle = "none"
    /\ toc_outline = <<>>
    /\ doc_type = ""
    /\ stats = NoStats
    /\ title = ""
    /\ outline = <<>>
    /\ seen_headings = {}
    /\ page_num = 0
    /\ result = NoResult
    /\ NoBatch
    /\ call = NoCall /\ ret = NoReturn

TocMinEntries == 3
StatsSamplePages == 5

OpenErrorRecord ==
    [title |-> "Error: Could not open PDF",
     outline |-> <<>>,
     metadata |-> [error |-> "cannot open"]]

\* the record of the outer handler, with an extraction method added
ProcessingErrorRecord_WithMethod ==
    [title |-> "Error: Processing failed",
     outline |-> <<>>,
     metadata |-> [error |-> "KeyError: 'spans'", extraction_method |-> "heuristic",
                   processing_time |-> 0]]

\* processing_time is a wall-clock figure; it is kept as 0
ProcessingErrorRecord ==
    [title |-> "Error: Processing failed",
     outline |-> <<>>,
     metadata |-> [error |-> "KeyError: 'spans'", processing_time |-> 0]]

\* the record of the shortcut, with the native outline post-processed
TocRecord_PostProcessed(t, toc, total_pages) ==
    [title |-> t,
     outline |-> post_process_outline(toc, "general"),
     metadata |-> [extraction_method |-> "toc", processing_time |-> 0,
                   total_pages |-> total_pages]]

TocRecord(t, toc, total_pages) ==
    [title |-> t,
     outline |-> toc,
     metadata |-> [extraction_method |-> "toc", processing_time |-> 0,
                   total_pages |-> total_pages]]

HeuristicRecord(t, o, dt, total_pages) ==
    [title |-> t,
     outline |-> o,
     metadata |-> [extraction_method |-> "heuristic", document_type |-> dt,
                   processing_time |-> 0, total_pages |-> total_pages,
                   total_headings |-> Len(o)]]

\* fitz.open succeeds
OpenOk ==
    /\ pc = "open" /\ doc.openable
    /\ handle' = "open"
    /\ pc' = "toc"
    /\ UNCHANGED <<unit_state, main_state, doc, toc_outline, doc_type, stats, title,
                   outline, seen_headings, page_num, result>>

\* fitz.open raises
OpenFail ==
    /\ pc = "open" /\ ~doc.openable
    /\ result' = OpenErrorRecord
    /\ pc' = "done"
    /\ UNCHANGED <<unit_state, main_state, doc, handle, toc_outline, doc_type, stats,
                   title, outline, seen_headings, page_num>>

\* TocReturn with a threshold of two entries
TocReturn_TwoEntries ==
    /\ pc = "toc"
    /\ LET toc == detect_outline_from_toc(doc.toc)
       IN /\ Len(toc) >= 2
          /\ toc_outline' = toc
          /\ title' = extract_title(doc, NoStats)
          /\ result' = TocRecord(title', toc, Len(doc.pages))
    /\ handle' = "closed"
    /\ pc' = "done"
    /\ UNCHANGED <<unit_state, main_state, doc, doc_type, stats, outline,
                   seen_headings, page_num>>

\* the native outline is substantial: it is returned
TocReturn ==
    /\ pc = "toc"
    /\ LET toc == detect_outline_from_toc(doc.toc)
       IN /\ Len(toc) >= TocMinEntries
          /\ toc_outline' = toc
          /\ title' = extract_title(doc, NoStats)
          /\ result' = TocRecord(title', toc, Len(doc.pages))
    /\ handle' = "closed"
    /\ pc' = "done"
    /\ UNCHANGED <<unit_state, main_state, doc, doc_type, stats, outline,
                   seen_headings, page_num>>

\* it is not: the heuristic path starts with the document type
TocSkip ==
    /\ pc = "toc"
    /\ LET toc == detect_outline_from_toc(doc.toc)
       IN /\ Len(toc) < TocMinEntries
          /\ toc_outline' = toc
    /\ doc_type' = detect_document_type(doc.pages)
    /\ pc' = "stats"
    /\ UNCHANGED <<unit_state, main_state, doc, handle, stats, title, outline,
                   seen_headings, page_num, result>>

\* the blocks of the first pages that can be read
SampledBlocks(pages) ==
    Flatten([p \in 1..Min2(Len(pages), StatsSamplePages) |->
               IF pages[p].readable THEN pages[p].blocks ELSE <<>>])

\* the statistics and the title
StatsOk ==
    /\ pc = "stats"
    /\ ~StatsRaises(SampledBlocks(doc.pages))
    /\ stats' = calculate_text_stats(SampledBlocks(doc.pages))
    /\ title' = extract_title(doc, stats')
    /\ page_num' = 0
    /\ pc' = "pages"
    /\ UNCHANGED <<unit_state, main_state, doc, handle, toc_outline, doc_type, outline,
                   seen_headings, result>>

\* calculate_text_stats raises: the outer handler closes and returns
StatsFail ==
    /\ pc = "stats"
    /\ StatsRaises(SampledBlocks(doc.pages))
    /\ handle' = "closed"
    /\ result' = ProcessingErrorRecord
    /\ pc' = "done"
    /\ UNCHANGED <<unit_state, main_state, doc, toc_outline, doc_type, stats, title,
                   outline, seen_headings, page_num>>

\* one round of the page loop, on a page that can be read
PageDone ==
    /\ pc = "pages" /\ page_num < Len(doc.pages)
    /\ doc.pages[page_num + 1].readable
    /\ LET page == doc.pages[page_num + 1]
           page_headings == extract_page_headings(page.blocks, page_num + 1, page.width,
                                                  page.height, stats, doc_type,
                                                  seen_headings)
       IN /\ outline' = outline \o page_headings
          /\ seen_headings' = seen_headings \cup
                                {page_headings[i].text : i \in 1..Len(page_headings)}
    /\ page_num' = page_num + 1
    /\ UNCHANGED <<unit_state, main_state, doc, pc, handle, toc_outline, doc_type,
                   stats, title, result>>

\* one round of the page loop, on a page whose reading raises
PageSkipped ==
    /\ pc = "pages" /\ page_num < Len(doc.pages)
    /\ ~doc.pages[page_num + 1].readable
    /\ page_num' = page_num + 1
    /\ UNCHANGED <<unit_state, main_state, doc, pc, handle, toc_outline, doc_type,
                   stats, title, outline, seen_headings, result>>

\* Finish without doc.close(): the heuristic return leaves the handle open
Finish_LeftOpen ==
    /\ pc = "pages" /\ page_num = Len(doc.pages)
    /\ outline' = post_process_outline(outline, doc_type)
    /\ result' = HeuristicRecord(title, outline', doc_type, Len(doc.pages))
    /\ pc' = "done"
    /\ UNCHANGED <<unit_state, main_state, doc, handle, toc_outline, doc_type, stats,
                   title, seen_headings, page_num>>

\* after the loop: post-processing, close, return
Finish ==
    /\ pc = "pages" /\ page_num = Len(doc.pages)
    /\ outline' = post_process_outline(outline, doc_type)
    /\ handle' = "closed"
    /\ result' = HeuristicRecord(title, outline', doc_type, Len(doc.pages))
    /\ pc' = "done"
    /\ UNCHANGED <<unit_state, main_state, doc, toc_outline, doc_type, stats, title,
                   seen_headings, page_num>>

Next ==
    \/ OpenOk
    \/ OpenFail
    \/ TocReturn
    \/ TocSkip
    \/ StatsOk
    \/ StatsFail
    \/ PageDone
    \/ PageSkipped
    \/ Finish

Spec == Init /\ [][Next]_vars

(***************************************************************************)
(* main.py: the batch driver.  main finds the PDF files of the input       *)
(* directory and calls process_pdf on each; process_pdf calls              *)
(* extract_outline (the actions above) and writes <stem>.json.  Writing a  *)
(* file is an operation of the environment that either succeeds or raises. *)
(***************************************************************************)
File(name, d) == [name |-> name, doc |-> d]

\* pathlib's stem: the name without its last suffix
Stem(name) ==
    LET dots == {i \in 2..Len(name) : Ch(name, i) = "."}
    IN IF dots = {} THEN name
       ELSE SubSeq(name, 1, (CHOOSE i \in dots : \A j \in dots : j <= i) - 1)

\* input_dir.glob(pattern) for the pattern "*" \o suffix
Glob(files, suffix) == SelectSeq(files, LAMBDA f : EndsWith(f.name, suffix))

OutputName(file) == Stem(file.name) \o ".json"

\* the files of output_dir after name has been written
Written(dir, name, record) ==
    [n \in DOMAIN dir \cup {name} |-> IF n = name THEN record ELSE dir[n]]

FileNames == {"a.pdf", "b.pdf", "a.PDF"}

BatchDocuments ==
    {Doc(FALSE, <<>>, "", <<>>),
     Doc(TRUE, LongToc(3), "", <<Page(<<BChapter>>)>>),
     Doc(TRUE, <<>>, "", <<Page(<<BChapter, BNum>>)>>),
     Doc(TRUE, <<>>, "", <<Unreadable(Page(<<BChapter, BSec, BNum>>)), Page(<<BSec>>)>>),
     Doc(TRUE, <<>>, "", <<Page(<<BSec, BadLineBlock>>)>>)}

MaxBatch == 2

\* the listings of a directory: files with different names
Directories ==
    {files \in SeqsUpTo({File(n, d) : n \in FileNames, d \in BatchDocuments}
                           \cup {File("notes.txt", Doc(FALSE, <<>>, "", <<>>))},
                        MaxBatch) :
        \A i, j \in 1..Len(files) : i # j => files[i].name # files[j].name}

BatchInit ==
    /\ input_dir \in {NoDirectory} \cup {[exists |-> TRUE, files |-> f] : f \in Directories}
    /\ main_pc = "start"
    /\ pdf_files = <<>>
    /\ file_num = 0
    /\ results = <<>>
    /\ output_dir = <<>>
    /\ summary = NoSummary
    /\ exit_code = <<>>
    /\ doc = Doc(FALSE, <<>>, "", <<>>)
    /\ pc = "idle"
    /\ handle = "none"
    /\ toc_outline = <<>>
    /\ doc_type = ""
    /\ stats = NoStats
    /\ title = ""
    /\ outline = <<>>
    /\ seen_headings = {}
    /\ page_num = 0
    /\ result = NoResult
    /\ call = NoCall /\ ret = NoReturn

extract_state == <<doc, pc, handle, toc_outline, doc_type, stats, title, outline,
                   seen_headings, page_num, result>>

\* main up to the loop: the input directory does not exist
MainNoInputDir ==
    /\ main_pc = "start" /\ ~input_dir.exists
    /\ main_pc' = "exited" /\ exit_code' = <<1>>
    /\ UNCHANGED <<unit_state, input_dir, pdf_files, file_num, results, output_dir, summary,
                   extract_state>>

\* main up to the loop: no PDF file is found
MainNoFiles ==
    /\ main_pc = "start" /\ input_dir.exists
    /\ Glob(input_dir.files, ".pdf") \o Glob(input_dir.files, ".PDF") = <<>>
    /\ main_pc' = "exited" /\ exit_code' = <<0>>
    /\ UNCHANGED <<unit_state, input_dir, pdf_files, file_num, results, output_dir, summary,
                   extract_state>>

\* main up to the loop: the files are found
MainFindFiles ==
    /\ main_pc = "start" /\ input_dir.exists
    /\ Glob(input_dir.files, ".pdf") \o Glob(input_dir.files, ".PDF") # <<>>
    /\ pdf_files' = Glob(input_dir.files, ".pdf") \o Glob(input_dir.files, ".PDF")
    /\ main_pc' = "loop"
    /\ UNCHANGED <<unit_state, input_dir, file_num, results, output_dir, summary, exit_code,
                   extract_state>>

\* the loop calls process_pdf, which calls extract_outline
ProcessPdfCall ==
    /\ main_pc = "loop" /\ file_num < Len(pdf_files)
    /\ main_pc' = "process_pdf"
    /\ doc' = pdf_files[file_num + 1].doc
    /\ pc' = "open"
    /\ handle' = "none"
    /\ toc_outline' = <<>>
    /\ doc_type' = ""
    /\ stats' = NoStats
    /\ title' = ""
    /\ outline' = <<>>
    /\ seen_headings' = {}
    /\ page_num' = 0
    /\ result' = NoResult
    /\ UNCHANGED <<unit_state, input_dir, pdf_files, file_num, results, output_dir, summary,
                   exit_code>>

SuccessReturn(file, r) ==
    [success |-> TRUE,
     filename |-> file.name,
     output_file |-> OutputName(file),
     processing_time |-> 0,
     headings_count |-> Len(r.outline),
     title |-> r.title,
     doc_type |-> IF "document_type" \in DOMAIN r.metadata
                  THEN r.metadata.document_type ELSE "unknown"]

FailureReturn(file) ==
    [success |-> FALSE, filename |-> file.name, error |-> "write failed",
     processing_time |-> 0]

error_output ==
    [title |-> "",
     outline |-> <<>>,
     metadata |-> [error |-> "write failed", processing_time |-> 0]]

\* process_pdf after extract_outline has returned: the result is written
ProcessPdfSaved ==
    /\ main_pc = "process_pdf" /\ pc = "done"
    /\ LET file == pdf_files[file_num + 1]
       IN /\ output_dir' = Written(output_dir, OutputName(file), result)
          /\ results' = Append(results, SuccessReturn(file, result))
    /\ file_num' = file_num + 1
    /\ main_pc' = "loop"
    /\ UNCHANGED <<unit_state, input_dir, pdf_files, summary, exit_code, extract_state>>

\* process_pdf after extract_outline has returned: writing the result raises,
\* the handler writes error_output
ProcessPdfFailed ==
    /\ main_pc = "process_pdf" /\ pc = "done"
    /\ LET file == pdf_files[file_num + 1]
       IN /\ output_dir' = Written(output_dir, OutputName(file), error_output)
          /\ results' = Append(results, FailureReturn(file))
    /\ file_num' = file_num + 1
    /\ main_pc' = "loop"
    /\ UNCHANGED <<unit_state, input_dir, pdf_files, summary, exit_code, extract_state>>

\* process_pdf after extract_outline has returned: writing the result raises
\* and so does writing error_output in the handler; the exception leaves
\* process_pdf and main
ProcessPdfRaised ==
    /\ main_pc = "process_pdf" /\ pc = "done"
    /\ main_pc' = "crashed" /\ exit_code' = <<1>>
    /\ UNCHANGED <<unit_state, input_dir, pdf_files, file_num, results, output_dir, summary,
                   extract_state>>

Successful(rs) == Cardinality({i \in 1..Len(rs) : rs[i].success})

RECURSIVE TotalHeadings(_, _)
TotalHeadings(rs, n) ==
    IF n = 0 THEN 0
    ELSE TotalHeadings(rs, n - 1) + (IF rs[n].success THEN rs[n].headings_count ELSE 0)

DocTypeCounts(rs) ==
    [t \in {rs[i].doc_type : i \in {j \in 1..Len(rs) : rs[j].success}} |->
        Cardinality({i \in 1..Len(rs) : rs[i].success /\ rs[i].doc_type = t})]

Summary(rs, total_files) ==
    [total_files |-> total_files,
     successful |-> Successful(rs),
     failed |-> Len(rs) - Successful(rs),
     total_headings |-> TotalHeadings(rs, Len(rs)),
     total_time |-> 0,
     document_types |-> DocTypeCounts(rs),
     results |-> rs]

ExitStatus(failed) == IF failed = 0 THEN 0 ELSE 1

\* main after the loop: statistics, summary file, exit
MainSummary ==
    /\ main_pc = "loop" /\ file_num = Len(pdf_files)
    /\ summary' = Summary(results, Len(pdf_files))
    /\ exit_code' = <<ExitStatus(Len(results) - Successful(results))>>
    /\ main_pc' = "exited"
    /\ UNCHANGED <<unit_state, input_dir, pdf_files, file_num, results, output_dir,
                   extract_state>>

\* main after the loop: writing the summary file raises
MainSummaryRaised ==
    /\ main_pc = "loop" /\ file_num = Len(pdf_files)
    /\ main_pc' = "crashed" /\ exit_code' = <<1>>
    /\ UNCHANGED <<unit_state, input_dir, pdf_files, file_num, results, output_dir, summary,
                   extract_state>>

BatchNext ==
    \/ MainNoInputDir
    \/ MainNoFiles
    \/ MainFindFiles
    \/ ProcessPdfCall
    \/ OpenOk
    \/ OpenFail
    \/ TocReturn
    \/ TocSkip
    \/ StatsOk
    \/ StatsFail
    \/ PageDone
    \/ PageSkipped
    \/ Finish
    \/ ProcessPdfSaved
    \/ ProcessPdfFailed
    \/ ProcessPdfRaised
    \/ MainSummary
    \/ MainSummaryRaised

BatchSpec == BatchInit /\ [][BatchNext]_vars

(***************************************************************************)
(* The functions of utils.py called on their own, on every argument of a   *)
(* bounded set.                                                            *)
(***************************************************************************)
MaxHeadings == 3
MaxText == 4

\* headings with levels H1..H3 on pages 1 and 2, with or without 'order';
\* the text tells the headings of a list apart
HeadingsAt(i) ==
    {[level |-> l, text |-> "h" \o ToString(i), page |-> p] :
        l \in {"H1", "H2", "H3"}, p \in {1, 2}}
    \cup {[level |-> l, text |-> "h" \o ToString(i), page |-> p, order |-> 1] :
        l \in {"H1", "H2", "H3"}, p \in {1, 2}}

\* the lists of up to n such headings
RECURSIVE HeadingListsUpTo(_)
HeadingListsUpTo(n) ==
    IF n = 0 THEN {<<>>}
    ELSE HeadingListsUpTo(n - 1)
         \cup {Append(q, h) : q \in {r \in HeadingListsUpTo(n - 1) : Len(r) = n - 1},
                              h \in HeadingsAt(n)}

HeadingLists == HeadingListsUpTo(MaxHeadings)

\* headings whose texts differ in case and in surrounding blanks only, or not
\* at all
SimilarTexts == {"Intro", "intro", " INTRO", "Scope"}

SimilarLists ==
    SeqsUpTo({[level |-> "H1", text |-> t, page |-> 1] : t \in SimilarTexts},
             MaxHeadings)

\* strings of a letter, a blank, punctuation and a digit
TextChars == {"a", " ", ".", "-", "1"}

RECURSIVE Texts(_)
Texts(n) ==
    IF n = 0 THEN {""}
    ELSE Texts(n - 1) \cup {t \o c : t \in {u \in Texts(n - 1) : Len(u) = n - 1},
                                      c \in TextChars}

\* texts for is_promotional_heading: a stem followed by 0..MaxMarks "!"
MaxMarks == 3

RECURSIVE WithMarks(_, _)
WithMarks(s, n) == IF n = 0 THEN s ELSE WithMarks(s, n - 1) \o "!"

Stems == {"Big Sale", "SALE NOW", "so much fun", "Join us", "www.acme.org"}

\* font sizes at the average, 1.5 and 2.5 above it
EmphasisSizes == {Frac(12, 1), Frac(27, 2), Frac(29, 2)}

EmphasisCalls ==
    {[fn |-> "is_promotional_heading",
      arg |-> [text |-> WithMarks(s, n), font_size |-> f, is_bold |-> b,
               is_centered |-> c, avg_font_size |-> Frac(12, 1)]] :
       s \in Stems, n \in 0..MaxMarks, f \in EmphasisSizes,
       b \in BOOLEAN, c \in BOOLEAN}

Calls ==
    {[fn |-> "validate_heading_hierarchy", arg |-> q] : q \in HeadingLists}
    \cup {[fn |-> "merge_similar_headings", arg |-> q] : q \in SimilarLists}
    \cup {[fn |-> "clean_heading_text", arg |-> t] : t \in Texts(MaxText)}
    \cup EmphasisCalls

UnitInit ==
    /\ call \in Calls
    /\ ret = NoReturn
    /\ NoBatch
    /\ doc = Doc(FALSE, <<>>, "", <<>>)
    /\ pc = "idle"
    /\ handle = "none"
    /\ toc_outline = <<>>
    /\ doc_type = ""
    /\ stats = NoStats
    /\ title = ""
    /\ outline = <<>>
    /\ seen_headings = {}
    /\ page_num = 0
    /\ result = NoResult

CallValidate ==
    /\ call.fn = "validate_heading_hierarchy" /\ ret = NoReturn
    /\ ret' = [value |-> validate_heading_hierarchy(call.arg)]
    /\ UNCHANGED <<call, main_state, extract_state>>

CallMerge ==
    /\ call.fn = "merge_similar_headings" /\ ret = NoReturn
    /\ ret' = [value |-> merge_similar_headings(call.arg)]
    /\ UNCHANGED <<call, main_state, extract_state>>

CallClean ==
    /\ call.fn = "clean_heading_text" /\ ret = NoReturn
    /\ ret' = [value |-> clean_heading_text(call.arg)]
    /\ UNCHANGED <<call, main_state, extract_state>>

CallPromotional ==
    /\ call.fn = "is_promotional_heading" /\ ret = NoReturn
    /\ ret' = [value |-> is_promotional_heading(call.arg.text, call.arg.font_size,
                                                 call.arg.is_bold, call.arg.is_centered,
                                                 call.arg.avg_font_size)]
    /\ UNCHANGED <<call, main_state, extract_state>>

UnitNext ==
    \/ CallValidate
    \/ CallMerge
    \/ CallClean
    \/ CallPromotional

UnitSpec == UnitInit /\ [][UnitNext]_vars

(***************************************************************************)
(* Properties of the returned record.                                      *)
(***************************************************************************)
Done == pc = "done"

MetadataKeys == DOMAIN result.metadata

\* the record of the native-outline shortcut, of the heuristic path, of a failure
TocDone ==
    Done /\ "extraction_method" \in MetadataKeys /\ result.metadata.extraction_method = "toc"

HeuristicDone ==
    Done /\ "extraction_method" \in MetadataKeys
         /\ result.metadata.extraction_method = "heuristic"

ErrorDone == Done /\ "error" \in MetadataKeys

OutlineLevels == {result.outline[i].level : i \in 1..Len(result.outline)}

\* C1: on every return path (native outline, heuristic, error) the level of
\* every entry of the returned outline is one of H1, H2, H3.
C1_LevelsInRange == Done => OutlineLevels \subseteq {"H1", "H2", "H3"}

\* a native outline with a level-4 entry was returned through the shortcut,
\* with entries of all three levels
C1_Witness ==
    /\ TocDone
    /\ \E i \in 1..Len(doc.toc) : doc.toc[i][1] = 4
    /\ OutlineLevels = {"H1", "H2", "H3"}

\* a comes before b in (page, discovery order)
ScanBefore(a, b) == a.page < b.page \/ (a.page = b.page /\ a.disc < b.disc)

\* C2: in the final outline of the heuristic path, taken in (page, discovery)
\* order, no heading's level is more than one above the level of the
\* surviving heading before it, whatever the document type.
C2_NoLevelJump ==
    HeuristicDone =>
        \A i, j \in 1..Len(result.outline) :
            LET a == result.outline[i]
                b == result.outline[j]
            IN (/\ ScanBefore(a, b)
                /\ ~\E k \in 1..Len(result.outline) :
                       ScanBefore(a, result.outline[k]) /\ ScanBefore(result.outline[k], b))
               => LevelNumber(b.level) <= LevelNumber(a.level) + 1

\* the limit the outline of a document is said to respect
OutlineLimit(dt) == IF dt = "promotional" THEN PromotionalLimit ELSE StandardLimit

\* C3 as stated: on every return path, the shortcut included, the outline
\* has at most 5 entries for a promotional document and at most 50 otherwise.
C3_LimitOnEveryPath ==
    Done => Len(result.outline) <= OutlineLimit(detect_document_type(doc.pages))

\* C3: on every return path but the native-outline shortcut, the outline has
\* at most 5 entries for a promotional document and at most 50 otherwise.
C3_LimitOffShortcut ==
    (Done /\ ~TocDone) =>
        Len(result.outline) <= (IF HeuristicDone
                                THEN OutlineLimit(result.metadata.document_type)
                                ELSE 0)

\* a promotional document with more than 5 distinct headings collected, cut to 5
C3_Witness ==
    /\ HeuristicDone
    /\ result.metadata.document_type = "promotional"
    /\ Cardinality({ToLower(t) : t \in seen_headings}) > PromotionalLimit
    /\ Len(result.outline) = PromotionalLimit

CaseFoldedDistinct(o) ==
    \A i, j \in 1..Len(o) : i # j => ToLower(o[i].text) # ToLower(o[j].text)

\* C4 as stated: on every return path no two headings of the outline have the
\* same case-folded text.
C4_DistinctOnEveryPath == Done => CaseFoldedDistinct(result.outline)

\* C4: on every return path but the native-outline shortcut, no two headings
\* of the outline have the same case-folded text.
C4_DistinctOffShortcut == (Done /\ ~TocDone) => CaseFoldedDistinct(result.outline)

\* two headings that differ only in case were collected, and one of them is
\* in the outline
C4_Witness ==
    /\ HeuristicDone
    /\ \E a, b \in seen_headings : a # b /\ ToLower(a) = ToLower(b)
    /\ \E i \in 1..Len(result.outline) :
          \E b \in seen_headings :
              b # result.outline[i].text /\ ToLower(b) = ToLower(result.outline[i].text)

\* C5: when the document cannot be opened or parsed, the result is an error
\* record: the title is the empty string, the outline is empty, and the
\* metadata holds the error message.
C5_ErrorRecordShape ==
    ErrorDone => result.title = "" /\ result.outline = <<>> /\ result.metadata.error # ""

\* C6: every result is exactly one of a full record (extraction_method and no
\* error) and an error record (error, no extraction_method, empty outline);
\* no record has both an error and headings.
C6_FullOrError ==
    Done =>
        /\ ("extraction_method" \in MetadataKeys) # ("error" \in MetadataKeys)
        /\ "error" \in MetadataKeys => result.outline = <<>>

\* the outer handler returned for a document whose first page has lines
C6_Witness ==
    /\ ErrorDone
    /\ handle = "closed"
    /\ \E b \in 1..Len(doc.pages[1].blocks) : HasLines(doc.pages[1].blocks[b])

\* reading the page raises, or classifying one of its lines does
PageFails(page) ==
    \/ ~page.readable
    \/ \E b \in 1..Len(page.blocks) :
          /\ HasLines(page.blocks[b])
          /\ \E l \in 1..Len(page.blocks[b].lines) : LineRaises(page.blocks[b].lines[l])

\* the pages, each failing one replaced by a readable page without blocks
WithoutFailing(pages) ==
    AsList([p \in 1..Len(pages) |->
              IF PageFails(pages[p])
              THEN [pages[p] EXCEPT !.readable = TRUE, !.blocks = <<>>]
              ELSE pages[p]])

\* the headings and the seen texts after the first n pages
RECURSIVE CollectedUpTo(_, _, _, _)
CollectedUpTo(pages, n, st, dt) ==
    IF n = 0 THEN [outline |-> <<>>, seen |-> {}]
    ELSE LET prev == CollectedUpTo(pages, n - 1, st, dt)
             found == extract_page_headings(pages[n].blocks, n, pages[n].width,
                                            pages[n].height, st, dt, prev.seen)
         IN [outline |-> prev.outline \o found,
             seen |-> prev.seen \cup {found[i].text : i \in 1..Len(found)}]

Qualifying(toc) ==
    {i \in 1..Len(toc) : /\ toc[i][1] \in 1..3
                         /\ Len(clean_heading_text(toc[i][2])) >= 2}

\* C8: the shortcut returns the qualifying native entries in their original
\* order, level n as Hn, with no repair, deduplication, ranking or
\* truncation: levels [1,2,1,3] come out as [H1,H2,H1,H3].
C8_ShortcutVerbatim ==
    TocDone =>
        LET kept == Qualifying(doc.toc)
        IN /\ Len(result.outline) = Cardinality(kept)
           /\ \A i \in kept :
                 LET h == result.outline[Cardinality({j \in kept : j <= i})]
                 IN /\ h.level = "H" \o ToString(doc.toc[i][1])
                    /\ h.text = clean_heading_text(doc.toc[i][2])
                    /\ h.page = (IF doc.toc[i][3] < 1 THEN 1 ELSE doc.toc[i][3])

\* the native levels are 1,2,1,3 and come out as H1,H2,H1,H3, two of the
\* titles being equal
C8_Witness ==
    /\ TocDone
    /\ Len(doc.toc) = 4
    /\ <<doc.toc[1][1], doc.toc[2][1], doc.toc[3][1], doc.toc[4][1]>> = <<1, 2, 1, 3>>
    /\ Len(result.outline) = 4
    /\ <<result.outline[1].level, result.outline[2].level,
         result.outline[3].level, result.outline[4].level>> = <<"H1", "H2", "H1", "H3">>
    /\ result.outline[1].text = result.outline[3].text

LevelInRange(toc) == {i \in 1..Len(toc) : toc[i][1] \in 1..3}

\* C9 as stated: the shortcut is taken exactly when the native outline has 3
\* or more entries with a level in 1..3.
C9_TakenOnLevelCount ==
    (Done /\ doc.openable) => (TocDone <=> Cardinality(LevelInRange(doc.toc)) >= 3)

\* C9: the shortcut is taken exactly when 3 or more native entries have a
\* level in 1..3 and a title that cleans to 2 characters or more; the entries
\* whose title cleans to less are dropped, and every returned page is >= 1.
C9_TakenOnKeptCount ==
    (Done /\ doc.openable) =>
        /\ TocDone <=> Cardinality(Qualifying(doc.toc)) >= 3
        /\ TocDone => \A i \in 1..Len(result.outline) :
                         /\ Len(result.outline[i].text) >= 2
                         /\ result.outline[i].page >= 1

\* the shortcut was taken on a native outline with an entry whose title
\* cleans to nothing and an entry with a page below 1
C9_Witness ==
    /\ TocDone
    /\ \E i \in LevelInRange(doc.toc) : i \notin Qualifying(doc.toc)
    /\ \E i \in Qualifying(doc.toc) : doc.toc[i][3] < 1

\* number of distinct entries of the list found in the text
DistinctFound(indicators, text) ==
    Cardinality({w \in {indicators[i] : i \in 1..Len(indicators)} : Contains(text, w)})

\* number of contact patterns found in the text
ContactFound(text) ==
    Cardinality({k \in {"phone", "url", "address"} :
                   \/ k = "phone" /\ PhoneSearch(text)
                   \/ k = "url" /\ UrlSearch(text)
                   \/ k = "address" /\ AddressSearch(text)})

\* C10: the document type is promotional if 2 or more promotional indicators
\* or 2 or more contact patterns are found; else academic if 2 or more
\* academic indicators are; else formal if 2 or more formal indicators are;
\* else general.  The counts are of distinct entries found in the lower-cased
\* sample; a text with "rsvp" and "party" is promotional.
C10_TypeDecision ==
    pc = "stats" =>
        LET text == TypeSample(doc.pages)
            promotionalCount == DistinctFound(promotional_indicators, text)
            contactCount == ContactFound(text)
            academicCount == DistinctFound(academic_indicators, text)
            formalCount == DistinctFound(formal_indicators, text)
        IN /\ doc_type = (IF promotionalCount >= 2 \/ contactCount >= 2 THEN "promotional"
                          ELSE IF academicCount >= 2 THEN "academic"
                          ELSE IF formalCount >= 2 THEN "formal"
                          ELSE "general")
           /\ (Contains(text, "rsvp") /\ Contains(text, "party")) => doc_type = "promotional"

\* a sample with 2 academic and 2 formal indicators and no sign of promotion
C10_Witness ==
    /\ pc = "stats"
    /\ doc_type = "academic"
    /\ DistinctFound(academic_indicators, TypeSample(doc.pages)) >= 2
    /\ DistinctFound(formal_indicators, TypeSample(doc.pages)) >= 2

\* C11 as stated: every sample with "abstract" and "methodology" and fewer
\* than 2 promotional indicators is classified as academic.
C11_AcademicUnlessPromotionalWords ==
    pc = "stats" =>
        LET text == TypeSample(doc.pages)
        IN (/\ Contains(text, "abstract") /\ Contains(text, "methodology")
            /\ DistinctFound(promotional_indicators, text) < 2)
           => doc_type = "academic"

\* C11: every sample with "abstract" and "methodology", fewer than 2
\* promotional indicators and fewer than 2 contact patterns is classified as
\* academic.
C11_AcademicUnlessPromotional ==
    pc = "stats" =>
        LET text == TypeSample(doc.pages)
        IN (/\ Contains(text, "abstract") /\ Contains(text, "methodology")
            /\ DistinctFound(promotional_indicators, text) < 2
            /\ ContactFound(text) < 2)
           => doc_type = "academic"

\* a sample with both words, one contact pattern at most and no second
\* promotional indicator was classified
C11_Witness ==
    /\ pc = "stats"
    /\ Contains(TypeSample(doc.pages), "abstract")
    /\ Contains(TypeSample(doc.pages), "methodology")
    /\ DistinctFound(promotional_indicators, TypeSample(doc.pages)) < 2
    /\ ContactFound(TypeSample(doc.pages)) < 2
    /\ doc_type = "academic"

\* the page the loop has just handled, where no line raises
PromotionalPageHandled ==
    /\ pc = "pages" /\ page_num >= 1 /\ doc_type = "promotional"
    /\ doc.pages[page_num].readable
    /\ \A i \in 1..Len(LinesOf(doc.pages[page_num].blocks)) :
          ~LineRaises(LinesOf(doc.pages[page_num].blocks)[i].line)

\* the fragments of the handled page that qualify as promotional headings
QualifyingFragments ==
    LET page == doc.pages[page_num]
        lines == LinesOf(page.blocks)
    IN PromotionalCandidates(lines, 1..Len(lines), page_num, page.width, page.height,
                             stats,
                             {outline[i].text : i \in {j \in 1..Len(outline) :
                                                          outline[j].page < page_num}})

\* the entries the handled page returned
PageEntries == SelectSeq(outline, LAMBDA h : h.page = page_num)

\* the importance score of the returned entry h among the fragments q
ImportanceOf(q, h) == q[CHOOSE i \in 1..Len(q) : q[i].disc = h.disc].importance

\* min(5, qualifying) entries, each a qualifying fragment, with levels by rank
PromotionalCountAndLevels(q, e) ==
    /\ Len(e) = Min2(5, Len(q))
    /\ \A k \in 1..Len(e) :
          /\ e[k].level = (IF k = 1 THEN "H1" ELSE IF k <= 3 THEN "H2" ELSE "H3")
          /\ \E i \in 1..Len(q) : q[i].disc = e[k].disc /\ q[i].text = e[k].text
    /\ Len(q) >= 6 => [k \in 1..Len(e) |-> e[k].level] = <<"H1", "H2", "H2", "H3", "H3">>

\* C12 as stated: a promotional page returns min(5, qualifying) entries with
\* levels H1, H2, H2, H3, H3 by rank, and the importance scores of the
\* returned entries are strictly decreasing.
C12_StrictlyDecreasing ==
    PromotionalPageHandled =>
        LET q == QualifyingFragments
            e == PageEntries
            imp == [k \in 1..Len(e) |-> ImportanceOf(q, e[k])] \o <<>>
        IN /\ PromotionalCountAndLevels(q, e)
           /\ \A k \in 1..(Len(e) - 1) : FracLess(imp[k + 1], imp[k])

\* C12: a promotional page returns min(5, qualifying) entries with levels H1,
\* H2, H2, H3, H3 by rank; the importance scores of the returned entries never
\* increase, entries of equal score are in scan order, and no fragment left
\* out scores higher than a returned one.
C12_NeverIncreasing ==
    PromotionalPageHandled =>
        LET q == QualifyingFragments
            e == PageEntries
            imp == [k \in 1..Len(e) |-> ImportanceOf(q, e[k])] \o <<>>
        IN /\ PromotionalCountAndLevels(q, e)
           /\ \A k \in 1..(Len(e) - 1) :
                 \/ FracLess(imp[k + 1], imp[k])
                 \/ ~FracLess(imp[k], imp[k + 1]) /\ e[k].disc < e[k + 1].disc
           /\ \A i \in 1..Len(q) :
                 (\A k \in 1..Len(e) : e[k].disc # q[i].disc)
                 => \A k \in 1..Len(e) : ~FracLess(imp[k], q[i].importance)

\* a page with six qualifying fragments returned five entries, two of them
\* with the same score
C12_Witness ==
    /\ PromotionalPageHandled
    /\ LET q == QualifyingFragments
           e == PageEntries
       IN /\ Len(q) = 6
          /\ Len(e) = 5
          /\ \E k \in 1..4 :
                /\ ~FracLess(ImportanceOf(q, e[k + 1]), ImportanceOf(q, e[k]))
                /\ ~FracLess(ImportanceOf(q, e[k]), ImportanceOf(q, e[k + 1]))

\* (page, level number, discovery order) of a before that of b
RankKeyLess(a, b) ==
    \/ a.page < b.page
    \/ a.page = b.page /\ LevelNumber(a.level) < LevelNumber(b.level)
    \/ a.page = b.page /\ LevelNumber(a.level) = LevelNumber(b.level) /\ a.disc < b.disc

\* the candidates in ascending order of that key
RankedOrder(c) ==
    [k \in 1..Len(c) |->
        c[CHOOSE i \in 1..Len(c) :
             Cardinality({j \in 1..Len(c) : RankKeyLess(c[j], c[i])}) = k - 1]]

\* the lines of the document, over all its pages
RECURSIVE DocLineCount(_, _)
DocLineCount(pages, n) ==
    IF n = 0 THEN 0
    ELSE DocLineCount(pages, n - 1)
         + Len(LinesOf(pages[n].blocks))

\* C13: the output of post-processing for a non-promotional document is the
\* first min(50, n) entries of its n candidates (the collected headings after
\* deduplication and level repair) sorted ascending by (page, level number,
\* discovery order); 60 candidates give exactly 50 entries.
C13_RankedPrefix ==
    [][(pc = "pages" /\ pc' = "done" /\ doc_type # "promotional") =>
          LET c == validate_heading_hierarchy(merge_similar_headings(outline))
              r == RankedOrder(c)
          IN /\ Len(outline') = Min2(50, Len(c))
             /\ \A k \in 1..Len(outline') : outline'[k] = r[k]
             /\ Len(c) = 60 => Len(outline') = 50]_vars

\* a general document with 60 candidates returned 50 headings, not all in
\* discovery order
C13_Witness ==
    /\ HeuristicDone /\ doc_type = "general"
    /\ DocLineCount(doc.pages, Len(doc.pages)) = 60
    /\ Len(validate_heading_hierarchy(merge_similar_headings(
               CollectedUpTo(doc.pages, Len(doc.pages), stats, doc_type).outline))) = 60
    /\ Len(outline) = 50
    /\ \E k \in 1..49 : outline[k].page = outline[k + 1].page
                        /\ outline[k].disc > outline[k + 1].disc

\* the text that deduplication compares
MergeKey(h) == Strip(ToLower(h.text))

\* C17 as stated: of the collected headings whose texts are the same after
\* case folding, deduplication keeps the one that comes first in (page,
\* discovery order), whatever the document type.
C17_FirstDiscoveredKept ==
    (pc = "pages" /\ page_num = Len(doc.pages)) =>
        LET merged == merge_similar_headings(outline)
        IN \A i \in 1..Len(outline) :
              \E k \in 1..Len(merged) :
                  /\ MergeKey(merged[k]) = MergeKey(outline[i])
                  /\ ~ScanBefore(outline[i], merged[k])

\* the title comes from the scan of the first page, and no line of it raises
TitleFromFirstPage ==
    /\ pc = "pages"
    /\ LET t == Strip(doc.metadata_title)
       IN t = "" \/ EndsWith(ToLower(t), ".pdf")
    /\ doc.pages[1].readable
    /\ \A i \in 1..Len(LinesOf(doc.pages[1].blocks)) :
          ~LineRaises(LinesOf(doc.pages[1].blocks)[i].line)

\* C20 as stated: the title taken from the first page is a candidate of
\* maximal score, the first of them in scan order when several share that
\* score; it is the empty string when there is no candidate.
C20_FirstOfMaximalScore ==
    TitleFromFirstPage =>
        LET c == TitleCandidates(doc.pages[1], stats)
        IN IF c = <<>> THEN title = ""
           ELSE \E i \in 1..Len(c) :
                   /\ c[i].text = title
                   /\ \A j \in 1..Len(c) : ~FracLess(c[i].score, c[j].score)
                   /\ \A j \in 1..(i - 1) : FracLess(c[j].score, c[i].score)

(***************************************************************************)
(* Properties of the batch run.                                            *)
(***************************************************************************)
Ended == main_pc \in {"exited", "crashed"}

\* the written record is an error record
IsErrorRecord(r) == "error" \in DOMAIN r.metadata

\* C14 as stated: no failure while one document is processed stops the
\* batch: the run does not end before every input file, in sequence, has been
\* processed and has its one output record (outline or error record).
C14_EveryFileGetsARecord ==
    Ended =>
        /\ file_num = Len(pdf_files)
        /\ Len(results) = Len(pdf_files)
        /\ \A i \in 1..Len(pdf_files) : OutputName(pdf_files[i]) \in DOMAIN output_dir
        /\ Cardinality(DOMAIN output_dir) = Len(pdf_files)

\* C15 as stated: a batch run that went through its files exits with code 0
\* if and only if no error record was produced.
C15_ExitZeroIffNoErrorRecord ==
    (main_pc = "exited" /\ pdf_files # <<>>) =>
        (exit_code = <<0>> <=> \A n \in DOMAIN output_dir : ~IsErrorRecord(output_dir[n]))

(***************************************************************************)
(* Properties of the functions called on their own.                        *)
(***************************************************************************)
Returned(fn) == call.fn = fn /\ ret # NoReturn

\* (page, order) of a is not after that of b
PageOrderLeq(a, b) ==
    \/ a.page < b.page
    \/ a.page = b.page /\ OrderOf(a) <= OrderOf(b)

\* the heading of the argument that the returned heading h comes from
Original(h) == call.arg[CHOOSE i \in 1..Len(call.arg) : call.arg[i].text = h.text]

\* C16: the list returned by validate_heading_hierarchy holds the headings of
\* its argument, none added or removed, sorted by (page, order); its first
\* level is 1 and each level is at most the previous one plus 1; a level
\* differs from the argument's only by being lowered to the previous level
\* plus 1.
C16_RepairedHierarchy ==
    Returned("validate_heading_hierarchy") =>
        LET out == ret.value
            Level(k) == IF k = 0 THEN 0 ELSE LevelNumber(out[k].level)
        IN /\ Len(out) = Len(call.arg)
           /\ \A i \in 1..Len(call.arg) : \E k \in 1..Len(out) : out[k].text = call.arg[i].text
           /\ \A k \in 1..Len(out) :
                 /\ \E i \in 1..Len(call.arg) : call.arg[i].text = out[k].text
                 /\ [out[k] EXCEPT !.level = Original(out[k]).level] = Original(out[k])
                 /\ Level(k) <= Level(k - 1) + 1
                 /\ \/ out[k].level = Original(out[k]).level
                    \/ /\ Level(k) < LevelNumber(Original(out[k]).level)
                       /\ Level(k) = Level(k - 1) + 1
           /\ \A k \in 1..(Len(out) - 1) : PageOrderLeq(out[k], out[k + 1])
           /\ Len(out) >= 1 => Level(1) = 1

\* a list that was not sorted came back sorted with a level lowered
C16_Witness ==
    /\ Returned("validate_heading_hierarchy")
    /\ \E k \in 1..(Len(call.arg) - 1) : ~PageOrderLeq(call.arg[k], call.arg[k + 1])
    /\ \E k \in 1..Len(ret.value) : ret.value[k].level # Original(ret.value[k]).level

\* C18: merge_similar_headings applied to its own result returns it unchanged.
C18_MergeIdempotent ==
    Returned("merge_similar_headings") =>
        merge_similar_headings(ret.value) = ret.value

\* a list with two headings of the same case-folded text was merged
C18_Witness ==
    /\ Returned("merge_similar_headings")
    /\ Len(ret.value) >= 2
    /\ Len(ret.value) < Len(call.arg)
    /\ \E i \in 1..Len(call.arg) : call.arg[i].text \notin {ret.value[k].text : k \in 1..Len(ret.value)}

\* C19 as stated: clean_heading_text applied to its own result returns it
\* unchanged.
C19_CleanIdempotent ==
    Returned("clean_heading_text") =>
        clean_heading_text(ret.value) = ret.value

\* the emphasis score as C21 states it: the terms for size, bold, centring
\* and case, and 1 for each "!" of the text
EmphasisPerMark(a) ==
    (IF AbovePlus(a.font_size, a.avg_font_size, 4) THEN 3
     ELSE IF AbovePlus(a.font_size, a.avg_font_size, 2) THEN 2 ELSE 0)
    + (IF a.is_bold THEN 2 ELSE 0)
    + (IF a.is_centered THEN 2 ELSE 0)
    + (IF IsUpperStr(a.text) /\ Len(a.text) > 4 THEN 2
       ELSE IF IsTitleStr(a.text) THEN 1 ELSE 0)
    + CountChar(a.text, "!")

\* C21 as stated: a text that is not contact info and holds no high-priority
\* phrase is accepted by is_promotional_heading exactly when its emphasis
\* score, with 1 added for each "!" in it, is at least 3.
C21_OnePerExclamationMark ==
    (/\ Returned("is_promotional_heading")
     /\ Len(call.arg.text) >= 3
     /\ ~is_contact_info(call.arg.text)
     /\ PhraseCount(Strip(ToLower(call.arg.text))) = 0)
        => (ret.value <=> EmphasisPerMark(call.arg) >= 3)

\* the line of the document that a heading of the heuristic path was read from
SourceLine(h) == LinesOf(doc.pages[h.page].blocks)[h.disc]

\* C22 as stated: whatever the document type, no heading of a heuristic
\* outline has a text that is_noise_text classifies as noise, and none is a
\* figure/table caption read from a line that is not bold.
C22_PreFiltersOnEveryPath ==
    HeuristicDone =>
        \A k \in 1..Len(result.outline) :
            LET h == result.outline[k]
            IN /\ ~is_noise_text(h.text)
               /\ ~(FigureTableMatch(h.text) /\ ~LineBold(SourceLine(h).line.spans))

\* C23: for general, formal and academic documents, a non-empty outline
\* returned by the heuristic path starts with an H1 heading, and that heading
\* is on the lowest page that has a heading surviving deduplication.
C23_StartsWithH1OnLowestPage ==
    [][(pc = "pages" /\ pc' = "done" /\ doc_type # "promotional"
        /\ result'.outline # <<>>) =>
          LET surviving == merge_similar_headings(outline)
              first == result'.outline[1]
          IN /\ first.level = "H1"
             /\ \A i \in 1..Len(surviving) : first.page <= surviving[i].page
             /\ \E i \in 1..Len(surviving) : first.page = surviving[i].page]_vars

\* the level the detector gave to the line a heading was read from
DetectedLevel(h) ==
    LET page == doc.pages[h.page]
    IN StandardHeadingOf(SourceLine(h), h.disc, h.page, page.width, page.height,
                         stats, doc_type).level

\* a non-promotional outline of several headings was returned whose first
\* heading was detected below H1 and repaired, on a page after the first
C23_Witness ==
    /\ HeuristicDone /\ doc_type # "promotional"
    /\ Len(result.outline) >= 2
    /\ result.outline[1].level = "H1"
    /\ DetectedLevel(result.outline[1]) # "H1"
    /\ result.outline[1].page > 1

\* the points of extract_outline at which the document is still to be read:
\* its native outline, its pages for the type and the statistics, its pages
\* in the page loop
ReadingPoints == {"toc", "stats", "pages"}

\* C24: when extract_outline has opened the document, it has closed it when it
\* returns, by the shortcut, by the heuristic path or by the handler of an
\* exception; and the document is read only while it is open: it is open
\* wherever it is still to be read, and once closed the function has returned.
C24_ClosedBeforeReturn ==
    /\ (Done /\ doc.openable) => handle = "closed"
    /\ pc \in ReadingPoints => handle = "open"
    /\ handle = "closed" => Done

\* the outer handler returned the error record of a document that was opened
C24_Witness == ErrorDone /\ doc.openable /\ handle = "closed"

====
